---- MODULE Spec2Model ----
(***************************************************************************)
(* Verification model of amirbiron/ai-business-bot.                        *)
(*                                                                         *)
(* The module holds one state machine per subsystem of the program; every  *)
(* subsystem has its own specification (SpecLive, SpecIndex, SpecSum,      *)
(* SpecBcast, SpecRef) over the shared variable tuple `vars`.  A subsystem *)
(* leaves the variables of the other subsystems unchanged.                 *)
(***************************************************************************)
EXTENDS Integers, Sequences, FiniteSets, TLC

(***************************************************************************)
(* Bounds of the model                                                     *)
(***************************************************************************)
\* number of admin HTTP requests (start / end / send) issued in one run
MaxAdminOps == 2
\* number of inbound Telegram updates handled by the bot in one run
MaxMsgs == 1
\* number of KB writes and index rebuilds issued in one run
MaxIndexOps == 4
\* number of retrieve calls issued in one run
MaxRetrieves == 2
\* number of times the filesystem timestamp advances in one run
MaxClock == 3
\* number of maybe_summarize calls issued in one run
MaxSumCalls == 4
\* number of conversation rows inserted while the summarizer runs
MaxSumMsgs == 2

\* number of recipients of the broadcast
MaxRecipients == 11
\* number of try_send_referral_code calls issued in one run
MaxRefCalls == 4
\* number of register_referral calls issued in one run
MaxRegCalls == 2
\* number of complete_referral calls issued in one run
MaxCompleteCalls == 2

\* src/broadcast_service.py: recipients between two progress checkpoints
_PROGRESS_UPDATE_INTERVAL == 10
\* src/llm.py: capacity of the per-user lock map
_MAX_LOCKS == 1000
\* src/config.py: int(os.getenv("SUMMARY_THRESHOLD", ...)); the deployment
\* modelled here sets it to 1
SUMMARY_THRESHOLD == 1

Users == {"u1", "u2"}
\* Flask serves one request per thread: two requests can overlap
AdminThreads == {"a1", "a2"}
NoThread == "none"

VARIABLES
    \* ---- SQLite store (src/database.py) --------------------------------
    live_chats,      \* committed rows of table live_chats: <<[user_id, is_active]>>
    conversations,   \* committed rows of table conversations
    vacation_mode,   \* vacation_mode.is_active of the singleton row
    dbWriter,        \* connection that holds the SQLite write lock
    txn,             \* uncommitted live_chats image of the writing connection
    \* ---- admin panel requests (src/live_chat_service.py) ---------------
    pc,              \* position of every admin thread
    op,              \* request served by every admin thread
    sent,            \* local `sent` of LiveChatService.start / end
    status,          \* status string the service call returns
    adminOps,        \* requests issued so far
    cleanupPc,       \* position of cleanup_stale_live_chats()
    \* ---- bot update pipeline (src/bot/handlers.py) ---------------------
    botPc,           \* position of the update being handled
    botMsg,          \* the update being handled
    nextMsg,         \* updates received so far
    outbox,          \* messages the Telegram transport has delivered
    llmCalls,        \* updates for which generate_answer was called
    agentRequests,   \* updates for which an agent request was created
    \* ---- observers (not program state) ---------------------------------
    backReached,     \* "bot is back" delivered to u since u's latest session began
    endedByEnd,      \* u's latest session was deactivated by LiveChatService.end
    deactBy,         \* admin thread whose running end() deactivated u's session
    silenced         \* text updates that live_chat_guard saw with an active session

liveOther == <<live_chats, vacation_mode, dbWriter, txn, pc, op, sent, status,
               adminOps, cleanupPc, botPc, botMsg, nextMsg, outbox, llmCalls,
               agentRequests, backReached, endedByEnd, deactBy, silenced>>

liveVars == <<conversations, liveOther>>

VARIABLES
    \* ---- index state files (src/rag/engine.py) --------------------------
    staleMtime,      \* st_mtime_ns of FAISS_INDEX_PATH/.stale, 0 when absent
    fsClock,         \* timestamp the filesystem stamps on a touch right now
    kbVersion,       \* number of committed KB writes (add / edit / delete)
    diskIndex,       \* kbVersion the index saved on disk was built from
    rebuildLock,     \* holder of _REBUILD_LOCK in every process
    ixPc,            \* position of every thread that uses the index
    ixToken,         \* local start_stale_token of rebuild_index
    ixSnap,          \* kbVersion read by db.get_all_kb_entries
    ixOps,           \* KB writes and rebuilds issued so far
    \* ---- observers (not program state) ---------------------------------
    markedDuring,    \* a mark landed between t's token capture and its clear
    absentAtClear,   \* .stale was absent right after t's clear step
    erasedOwn        \* t's clear step unlinked .stale although markedDuring[t]

indexVars == <<staleMtime, fsClock, kbVersion, diskIndex, rebuildLock, ixPc,
               ixToken, ixSnap, ixOps, markedDuring, absentAtClear, erasedOwn>>

VARIABLES
    \* ---- summarizer (src/llm.py, src/database.py) -----------------------
    summaries,       \* rows of conversation_summaries of every user
    _summarize_locks,\* the lock map, in insertion order
    heldLocks,       \* threading.Lock objects that are locked
    nextLock,        \* identity of the next threading.Lock() created
    sumPc,           \* position of every summarizer worker thread
    sumUser,         \* user_id argument of maybe_summarize
    sumLock,         \* local `lock`
    sumBatch,        \* ids of local `messages_to_summarize`
    sumExisting,     \* message ids covered by local `existing_summary`
    sumCalls,        \* maybe_summarize calls issued so far
    sumMsgs          \* conversation rows inserted so far

sumVars == <<summaries, _summarize_locks, heldLocks, nextLock, sumPc, sumUser,
             sumLock, sumBatch, sumExisting, sumCalls, sumMsgs>>

VARIABLES
    broadcast,       \* the row of table broadcasts
    recipients,      \* length of the list `recipients` handed to the worker
    unsubscribed,    \* number of recipients unsubscribed by the worker
    bcPc,            \* position of the coroutine send_broadcast
    bcMode,          \* "loop": task on the bot's event loop, "thread": own thread
    needs_init,      \* keyword argument of send_broadcast
    bcI,             \* local `i` of the loop over recipients
    bcSent,          \* local `sent`
    bcFailed,        \* local `failed`
    bcAttempts,      \* send_message calls made for recipient `i`
    bcPending,       \* how the try block was left while `finally` runs
    bcTask,          \* how the task ended: finished, raised or cancelled
    bcHandled,       \* the task's end was seen by its caller
    ckSent,          \* `sent` as last written by the worker
    ckFailed,        \* `failed` as last written by the worker
    bcOutcome        \* what the last send_message call for recipient `i` answered

bcastVars == <<broadcast, recipients, unsubscribed, bcPc, bcMode, needs_init,
               bcI, bcSent, bcFailed, bcAttempts, bcPending, bcTask,
               bcHandled, ckSent, ckFailed, bcOutcome>>

VARIABLES
    referrals,       \* table referrals: its rows in order of id
    code_sent,       \* sent flag of the referrer
    refPc,           \* position of each try_send_referral_code call
    refUser,         \* its argument `user_id`
    refResult,       \* its return value
    refCalls,        \* try_send_referral_code calls issued so far
    refDelivered,    \* referral messages the transport delivered, per user
    refFailed,       \* a transport send for the user has failed
    lateSend,        \* a transport send was attempted after a delivery
    markCalls,       \* mark_sent calls since the user's flag was last unset
    markTrue         \* how many of them returned true

refOther == <<code_sent, refPc, refUser, refResult, refCalls, refDelivered,
              refFailed, lateSend, markCalls, markTrue>>
refVars == <<referrals, refOther>>

VARIABLES
    credits,         \* table credits: its rows in order of id
    crWriter,        \* the connection that holds SQLite's write lock
    crTxn,           \* the tables as written, uncommitted, by that connection
    regPc,           \* position of the bot's register_referral call
    regCode,         \* its argument `code` (a row of referrals, by id)
    regUser,         \* its argument `referred_id`
    regResult,       \* its return value
    regCalls,        \* register_referral calls issued so far
    cmpPc,           \* position of each complete_referral call
    cmpUser,         \* its argument `referred_id`
    cmpRow,          \* id of its local `row`
    cmpCalls         \* complete_referral calls issued so far

creditVars == <<credits, crWriter, crTxn, regPc, regCode, regUser, regResult,
                regCalls,
                cmpPc, cmpUser, cmpRow, cmpCalls>>

VARIABLES
    deployment,      \* "single": bot and admin panel in one process (the
                     \* default of main.py); "split": --bot and --admin
    rtPc,            \* position of each retrieve call
    rtSawStale,      \* its first is_index_stale() returned True
    rtAbsent,        \* its second is_index_stale() returned False
    rtRebuilt,       \* it has called rebuild_index() under the stale test
    rtCalls          \* retrieve calls issued so far

retrVars == <<deployment, rtPc, rtSawStale, rtAbsent, rtRebuilt, rtCalls>>

VARIABLES
    kb_entries,          \* table kb_entries: entry id -> its content
    kb_chunks,           \* table kb_chunks: entry id -> its stored rows
    emPc,                \* position of the incremental rebuild
    all_chunks,          \* rebuild_index: the chunks created in step 1
    stored_chunks,       \* rebuild_index: the rows loaded in step 2
    unchanged_entry_ids, \* rebuild_index: classification of step 3
    changed_entry_ids,
    new_embed_indices,   \* rebuild_index: positions awaiting a new vector
    new_embed_texts,     \* rebuild_index: texts collected for the embedder
    all_embeddings,      \* rebuild_index: one vector per chunk
    embedder_input,      \* texts get_embeddings_batch received in this run
    emCalls,             \* rebuilds started so far
    emEdits              \* entries edited so far

embedVars == <<kb_entries, kb_chunks, emPc, all_chunks, stored_chunks,
               unchanged_entry_ids, changed_entry_ids, new_embed_indices,
               new_embed_texts, all_embeddings, embedder_input, emCalls,
               emEdits>>

VARIABLES
    _store,          \* vector_store._store: the current VectorStore, if any
    vsIndex,         \* VectorStore.index of every object created
    vsMeta,          \* VectorStore.metadata of every object created
    vsDisk,          \* index.faiss and metadata.json on disk
    vsNext,          \* the next object to be created
    vsPc,            \* position of each thread
    vsInst,          \* the store each thread works on
    vsRet,           \* where each thread goes on after get_vector_store()
    vsInput,         \* the chunks a rebuild hands to build_index
    vsHits,          \* the vectors index.search returned to the search
    vsResult,        \* the metadata the search attached to them
    vsSearches,      \* retrieve calls so far
    vsBuilds,        \* rebuilds so far
    vsLock           \* owner of _REBUILD_LOCK

storeVars == <<_store, vsIndex, vsMeta, vsDisk, vsNext, vsPc, vsInst, vsRet,
               vsInput, vsHits, vsResult, vsSearches, vsBuilds, vsLock>>

VARIABLES
    summary_threshold    \* config.SUMMARY_THRESHOLD as the environment set it

cfgVars == <<summary_threshold>>

VARIABLES
    rpPc,            \* position of the handler that serves the update
    rpHandler,       \* the handler the update was routed to
    rpRaw,           \* raw_answer of generate_answer
    rpAnswer,        \* result["answer"]
    rpSent,          \* the messages sent to the customer so far
    rpUpdates,       \* updates received so far
    rpRequests,      \* agent requests created so far
    rpNotified       \* notifications of agent requests sent to the owner

replyVars == <<rpPc, rpHandler, rpRaw, rpAnswer, rpSent, rpUpdates,
               rpRequests, rpNotified>>

VARIABLES
    _user_timestamps,   \* deque of the timestamps recorded for the user
    now,                \* the value time.time() returns
    rlPc,               \* position of the rate-limit guard
    rlResult,           \* limit_msg: what check_rate_limit returned
    rlNow,              \* observer: `now` of the latest check
    rlRecorded,         \* observer: every timestamp recorded, never pruned
    rlChecks,           \* updates that reached the guard so far
    rlTicks,            \* clock advances so far
    rlReplies,          \* limit messages sent to the user
    rlLive,             \* LiveChatService.is_active(user_id) for the update
    rlHandled           \* observer: calls of the wrapped handler

rateVars == <<_user_timestamps, now, rlPc, rlResult, rlNow, rlRecorded,
              rlChecks, rlTicks, rlReplies, rlLive, rlHandled>>

VARIABLES
    inMessage,          \* the message given to detect_intent
    inIntent,           \* the Intent it returned
    inCalls             \* messages classified so far

intentVars == <<inMessage, inIntent, inCalls>>

VARIABLES
    bkState,            \* state of the booking ConversationHandler
    user_data,          \* context.user_data of the user
    appointments,       \* rows of the appointments table, oldest first
    bkTrail,            \* texts the state handlers took in this conversation
    bkText,             \* text of the update handled last
    bkEffects,          \* what the last handler saved and replied
    bkUpdates           \* updates handled so far

bookVars == <<bkState, user_data, appointments, bkTrail, bkText, bkEffects,
              bkUpdates>>

VARIABLES
    hePc,               \* position of the bot's engagement task
    heUser,             \* the user it runs for
    heChecks            \* engagement checks started so far

engageVars == <<hePc, heUser, heChecks>>

VARIABLES
    gaInput,            \* query and user of the last generate_answer call
    gaResult,           \* the dict it returned
    unanswered_questions,   \* rows of the table, oldest first
    gaCalls             \* calls made so far

answerVars == <<gaInput, gaResult, unanswered_questions, gaCalls>>

VARIABLES
    apStatus,           \* status of each appointment row
    apReferral,         \* state of the referral each user was referred by
    apPc,               \* position of each update_appointment request
    apArg,              \* its appt_id and the status of its form
    apLog,              \* the calls it has made, in order
    apRequests          \* requests received so far

apptVars == <<apStatus, apReferral, apPc, apArg, apLog, apRequests>>

VARIABLES
    embedding_dim,      \* length of the vectors the embedder yields
    dmChanges           \* changes of the provider's availability so far

dimVars == <<embedding_dim, dmChanges>>

VARIABLES
    stPc,               \* position of main()
    stMode,             \* what the command line selected
    TELEGRAM_BOT_TOKEN, \* whether the token is set in the environment
    stAdmin,            \* the admin panel is serving
    stUpdates           \* updates the bot has handled in this run

startVars == <<stPc, stMode, TELEGRAM_BOT_TOKEN, stAdmin, stUpdates>>

\* the subsystems that follow the handlers' replies
lateVars == <<rateVars, intentVars, bookVars,
    engageVars,
    answerVars,
    apptVars,
    dimVars,
    startVars>>

\* the subsystems that follow the retrieval protocol
restVars == <<embedVars, storeVars, cfgVars, replyVars, lateVars>>

vars == <<liveVars, indexVars, sumVars, bcastVars, refVars, creditVars,
          retrVars, restVars>>

\* what a step of one subsystem leaves alone
nonLiveVars == <<indexVars, sumVars, bcastVars, refVars, creditVars,
    retrVars, restVars>>
nonIndexVars == <<liveVars, sumVars, bcastVars, refVars, creditVars,
    retrVars, restVars>>
nonSumVars == <<liveOther, indexVars, bcastVars, refVars, creditVars,
    retrVars, restVars>>
nonBcastVars == <<liveVars, indexVars, sumVars, refVars, creditVars,
    retrVars, restVars>>
nonRefVars == <<liveVars, indexVars, sumVars, bcastVars, creditVars,
    retrVars, restVars>>
nonRetrVars == <<liveVars, sumVars, bcastVars, refVars, creditVars,
    restVars>>
nonCreditVars == <<liveVars, indexVars, sumVars, bcastVars, refOther,
    retrVars, restVars>>
baseVars == <<liveVars, indexVars, sumVars, bcastVars, refVars, creditVars,
    retrVars>>
nonEmbedVars == <<baseVars, storeVars, cfgVars, replyVars, lateVars>>
nonStoreVars == <<baseVars, embedVars, cfgVars, replyVars, lateVars>>
earlyVars == <<baseVars, embedVars, storeVars, cfgVars, replyVars>>
nonRateVars == <<earlyVars, intentVars, bookVars,
    engageVars,
    answerVars,
    apptVars,
    dimVars,
    startVars>>
nonIntentVars == <<earlyVars, rateVars, bookVars,
    engageVars,
    answerVars,
    apptVars,
    dimVars,
    startVars>>
nonBookVars == <<earlyVars, rateVars, intentVars,
    engageVars,
    answerVars,
    apptVars,
    dimVars,
    startVars>>
nonEngageLateVars == <<rateVars, intentVars, bookVars,
    answerVars,
    apptVars,
    dimVars,
    startVars>>
nonAnswerVars == <<earlyVars, rateVars, intentVars, bookVars, engageVars,
    apptVars,
    dimVars,
    startVars>>
nonApptVars == <<earlyVars, rateVars, intentVars, bookVars, engageVars, answerVars,
    dimVars,
    startVars>>
nonDimVars == <<earlyVars, rateVars, intentVars, bookVars, engageVars, answerVars, apptVars,
    startVars>>
nonStartVars == <<earlyVars, rateVars, intentVars, bookVars, engageVars, answerVars, apptVars, dimVars>>
nonReplyVars == <<liveOther, indexVars, sumVars, bcastVars, refVars, creditVars,
    retrVars, embedVars, storeVars, cfgVars, lateVars>>

(***************************************************************************)
(* SQLite store: live_chats                                                *)
(***************************************************************************)
NoMsg == [id |-> 0, user_id |-> "none", kind |-> "none", hasText |-> FALSE,
          chain |-> <<>>, after |-> "none", session |-> 0]
NoOp == [kind |-> "none", user_id |-> "none", empty |-> FALSE]

\* UPDATE live_chats SET is_active=0 WHERE user_id=? AND is_active=1
DeactivateUser(rows, u) ==
    [i \in 1..Len(rows) |->
        IF rows[i].user_id = u /\ rows[i].is_active
        THEN [rows[i] EXCEPT !.is_active = FALSE] ELSE rows[i]]

\* UPDATE live_chats SET is_active=0 WHERE is_active=1
DeactivateAll(rows) ==
    [i \in 1..Len(rows) |-> [rows[i] EXCEPT !.is_active = FALSE]]

ActiveRows(rows, u) ==
    {i \in 1..Len(rows) : rows[i].user_id = u /\ rows[i].is_active}

\* get_active_live_chat: SELECT ... WHERE user_id=? AND is_active=1 LIMIT 1
\* (a read sees the committed rows only: WAL snapshot)
get_active_live_chat(u) == ActiveRows(live_chats, u)

is_live_chat_active(u) == get_active_live_chat(u) # {}

\* save_message: INSERT INTO conversations (one autocommitted statement;
\* the row id is the AUTOINCREMENT cursor)
save_message(rows, u, role, text, ref) ==
    Append(rows, [id |-> Len(rows) + 1, user_id |-> u, role |-> role,
                  text |-> text, ref |-> ref])

\* send_telegram_message: the transport either delivers (resp.ok) or fails
Delivered(box, u, kind, ref) == box \cup {[to |-> u, kind |-> kind, ref |-> ref]}


(***************************************************************************)
(* LiveChatService (src/live_chat_service.py) served by the admin threads  *)
(***************************************************************************)
\* the finished request no longer counts as the running end() that
\* deactivated a session
ForgetThread(d, t) == [u \in Users |-> IF d[u] = t THEN "none" ELSE d[u]]

\* an admin route is entered: POST /live-chat/<user_id>/{start,end,send}
AdminRequest(t) ==
    /\ pc[t] = "idle"
    /\ adminOps < MaxAdminOps
    /\ \E k \in {"start", "end", "send"}, u \in Users, e \in BOOLEAN :
          /\ (e => k = "send")
          /\ op' = [op EXCEPT ![t] = [kind |-> k, user_id |-> u, empty |-> e]]
          /\ pc' = [pc EXCEPT ![t] = k \o "_check"]
    /\ adminOps' = adminOps + 1
    /\ UNCHANGED <<live_chats, conversations, vacation_mode, dbWriter, txn, sent,
                   status, cleanupPc, botPc, botMsg, nextMsg, outbox, llmCalls,
                   agentRequests, backReached, endedByEnd, deactBy, silenced>>
    /\ UNCHANGED nonLiveVars

\* the route returns its response and the thread is free again
AdminReturn(t) ==
    /\ pc[t] = "return"
    /\ pc' = [pc EXCEPT ![t] = "idle"]
    /\ op' = [op EXCEPT ![t] = NoOp]
    /\ sent' = [sent EXCEPT ![t] = FALSE]
    /\ status' = [status EXCEPT ![t] = "none"]
    /\ deactBy' = ForgetThread(deactBy, t)
    /\ UNCHANGED <<live_chats, conversations, vacation_mode, dbWriter, txn,
                   adminOps, cleanupPc, botPc, botMsg, nextMsg, outbox, llmCalls,
                   agentRequests, backReached, endedByEnd, silenced>>
    /\ UNCHANGED nonLiveVars

\* a start that does not look at the session and always opens a new one
start_check_always_starts(t) ==
    /\ pc[t] = "start_check"
    /\ pc' = [pc EXCEPT ![t] = "slc_update"]
    /\ UNCHANGED <<live_chats, conversations, vacation_mode, dbWriter, txn, op,
                   sent, status, adminOps, cleanupPc, botPc, botMsg, nextMsg,
                   outbox, llmCalls, agentRequests, backReached, endedByEnd,
                   deactBy, silenced>>
    /\ UNCHANGED nonLiveVars

\* LiveChatService.start: `if db.is_live_chat_active(user_id): return True,
\* "already_active"`
start_check(t) ==
    /\ pc[t] = "start_check"
    /\ IF is_live_chat_active(op[t].user_id)
       THEN /\ pc' = [pc EXCEPT ![t] = "return"]
            /\ status' = [status EXCEPT ![t] = "already_active"]
       ELSE /\ pc' = [pc EXCEPT ![t] = "slc_update"]
            /\ UNCHANGED status
    /\ UNCHANGED <<live_chats, conversations, vacation_mode, dbWriter, txn, op,
                   sent, adminOps, cleanupPc, botPc, botMsg, nextMsg, outbox,
                   llmCalls, agentRequests, backReached, endedByEnd, deactBy,
                   silenced>>
    /\ UNCHANGED nonLiveVars

\* a start_live_chat that forgets to end the prior active session
start_live_chat_update_keeps_prior(t) ==
    /\ pc[t] = "slc_update"
    /\ dbWriter = NoThread
    /\ dbWriter' = t
    /\ txn' = live_chats
    /\ pc' = [pc EXCEPT ![t] = "slc_insert"]
    /\ UNCHANGED <<live_chats, conversations, vacation_mode, op, sent, status,
                   adminOps, cleanupPc, botPc, botMsg, nextMsg, outbox, llmCalls,
                   agentRequests, backReached, endedByEnd, deactBy, silenced>>
    /\ UNCHANGED nonLiveVars

\* start_live_chat, first statement: the UPDATE opens the transaction and
\* takes the write lock (busy_timeout makes a second writer wait)
start_live_chat_update(t) ==
    /\ pc[t] = "slc_update"
    /\ dbWriter = NoThread
    /\ dbWriter' = t
    /\ txn' = DeactivateUser(live_chats, op[t].user_id)
    /\ pc' = [pc EXCEPT ![t] = "slc_insert"]
    /\ UNCHANGED <<live_chats, conversations, vacation_mode, op, sent, status,
                   adminOps, cleanupPc, botPc, botMsg, nextMsg, outbox, llmCalls,
                   agentRequests, backReached, endedByEnd, deactBy, silenced>>
    /\ UNCHANGED nonLiveVars

\* start_live_chat, second statement: INSERT INTO live_chats (is_active
\* defaults to 1)
start_live_chat_insert(t) ==
    /\ pc[t] = "slc_insert"
    /\ dbWriter = t
    /\ txn' = Append(txn, [user_id |-> op[t].user_id, is_active |-> TRUE])
    /\ pc' = [pc EXCEPT ![t] = "slc_commit"]
    /\ UNCHANGED <<live_chats, conversations, vacation_mode, dbWriter, op, sent,
                   status, adminOps, cleanupPc, botPc, botMsg, nextMsg, outbox,
                   llmCalls, agentRequests, backReached, endedByEnd, deactBy,
                   silenced>>
    /\ UNCHANGED nonLiveVars

\* get_connection: conn.commit() on leaving the with-block
start_live_chat_commit(t) ==
    /\ pc[t] = "slc_commit"
    /\ dbWriter = t
    /\ live_chats' = txn
    /\ txn' = <<>>
    /\ dbWriter' = NoThread
    /\ pc' = [pc EXCEPT ![t] = "start_send"]
    /\ backReached' = [backReached EXCEPT ![op[t].user_id] = FALSE]
    /\ endedByEnd' = [endedByEnd EXCEPT ![op[t].user_id] = FALSE]
    /\ deactBy' = [deactBy EXCEPT ![op[t].user_id] = "none"]
    /\ UNCHANGED <<conversations, vacation_mode, op, sent, status, adminOps,
                   cleanupPc, botPc, botMsg, nextMsg, outbox, llmCalls,
                   agentRequests, silenced>>
    /\ UNCHANGED nonLiveVars

\* LiveChatService.start: sent = send_telegram_message(user_id, notify_msg);
\* without a save to make, the call returns "telegram_failed"
start_send(t) ==
    /\ pc[t] = "start_send"
    /\ \E ok \in BOOLEAN :
          /\ sent' = [sent EXCEPT ![t] = ok]
          /\ outbox' = IF ok THEN Delivered(outbox, op[t].user_id, "human_joined", 0)
                       ELSE outbox
          /\ pc' = [pc EXCEPT ![t] = IF ok THEN "start_save" ELSE "return"]
          /\ status' = [status EXCEPT ![t] = IF ok THEN @ ELSE "telegram_failed"]
    /\ UNCHANGED <<live_chats, conversations, vacation_mode, dbWriter, txn, op,
                   adminOps, cleanupPc, botPc, botMsg, nextMsg, llmCalls,
                   agentRequests, backReached, endedByEnd, deactBy, silenced>>
    /\ UNCHANGED nonLiveVars

\* LiveChatService.start: `if sent: db.save_message(..., "assistant",
\* notify_msg)`, then return sent, "started"
start_save(t) ==
    /\ pc[t] = "start_save"
    /\ dbWriter = NoThread
    /\ conversations' = save_message(conversations, op[t].user_id, "assistant",
                                     "human_joined", 0)
    /\ pc' = [pc EXCEPT ![t] = "return"]
    /\ status' = [status EXCEPT ![t] = "started"]
    /\ UNCHANGED <<live_chats, vacation_mode, dbWriter, txn, op, sent, adminOps,
                   cleanupPc, botPc, botMsg, nextMsg, outbox, llmCalls,
                   agentRequests, backReached, endedByEnd, deactBy, silenced>>
    /\ UNCHANGED nonLiveVars

\* LiveChatService.end: `if not db.is_live_chat_active(user_id): return True,
\* "already_ended"`
end_check(t) ==
    /\ pc[t] = "end_check"
    /\ IF is_live_chat_active(op[t].user_id)
       THEN /\ pc' = [pc EXCEPT ![t] = "end_send"]
            /\ UNCHANGED status
       ELSE /\ pc' = [pc EXCEPT ![t] = "return"]
            /\ status' = [status EXCEPT ![t] = "already_ended"]
    /\ UNCHANGED <<live_chats, conversations, vacation_mode, dbWriter, txn, op,
                   sent, adminOps, cleanupPc, botPc, botMsg, nextMsg, outbox,
                   llmCalls, agentRequests, backReached, endedByEnd, deactBy,
                   silenced>>
    /\ UNCHANGED nonLiveVars

\* LiveChatService.end: sent = send_telegram_message(user_id, end_msg)
end_send(t) ==
    /\ pc[t] = "end_send"
    /\ \E ok \in BOOLEAN :
          /\ sent' = [sent EXCEPT ![t] = ok]
          /\ outbox' = IF ok THEN Delivered(outbox, op[t].user_id, "bot_is_back", 0)
                       ELSE outbox
          /\ backReached' = IF ok THEN [backReached EXCEPT ![op[t].user_id] = TRUE]
                            ELSE backReached
          /\ pc' = [pc EXCEPT ![t] = IF ok THEN "end_save" ELSE "end_deactivate"]
    /\ UNCHANGED <<live_chats, conversations, vacation_mode, dbWriter, txn, op,
                   status, adminOps, cleanupPc, botPc, botMsg, nextMsg, llmCalls,
                   agentRequests, endedByEnd, deactBy, silenced>>
    /\ UNCHANGED nonLiveVars

\* LiveChatService.end: `if sent: db.save_message(..., "assistant", end_msg)`
end_save(t) ==
    /\ pc[t] = "end_save"
    /\ dbWriter = NoThread
    /\ conversations' = save_message(conversations, op[t].user_id, "assistant",
                                     "bot_is_back", 0)
    /\ pc' = [pc EXCEPT ![t] = "end_deactivate"]
    /\ UNCHANGED <<live_chats, vacation_mode, dbWriter, txn, op, sent, status,
                   adminOps, cleanupPc, botPc, botMsg, nextMsg, outbox, llmCalls,
                   agentRequests, backReached, endedByEnd, deactBy, silenced>>
    /\ UNCHANGED nonLiveVars

\* db.end_live_chat(user_id) issued by the thread at position `at`, which
\* then moves to position `to`
end_live_chat(t, at, to) ==
    /\ pc[t] = at
    /\ dbWriter = NoThread
    /\ live_chats' = DeactivateUser(live_chats, op[t].user_id)
    /\ IF is_live_chat_active(op[t].user_id)
       THEN /\ endedByEnd' = [endedByEnd EXCEPT ![op[t].user_id] = TRUE]
            /\ deactBy' = [deactBy EXCEPT ![op[t].user_id] = t]
       ELSE UNCHANGED <<endedByEnd, deactBy>>
    /\ pc' = [pc EXCEPT ![t] = to]
    /\ UNCHANGED <<conversations, vacation_mode, dbWriter, txn, op, sent,
                   adminOps, cleanupPc, botPc, botMsg, nextMsg, outbox,
                   llmCalls, agentRequests, backReached, silenced>>
    /\ UNCHANGED nonLiveVars

\* an end() that deactivates before the notification is sent
end_deactivate_first(t) ==
    /\ end_live_chat(t, "end_send", "end_send")
    /\ UNCHANGED status

\* LiveChatService.end: "Deactivate AFTER sending notification", then
\* return sent, "ended" if sent else "telegram_failed"
end_deactivate(t) ==
    /\ end_live_chat(t, "end_deactivate", "return")
    /\ status' = [status EXCEPT ![t] = IF sent[t] THEN "ended" ELSE "telegram_failed"]

\* LiveChatService.send: the two guards (session active, message non-empty)
send_check(t) ==
    /\ pc[t] = "send_check"
    /\ IF ~is_live_chat_active(op[t].user_id)
       THEN /\ pc' = [pc EXCEPT ![t] = "return"]
            /\ status' = [status EXCEPT ![t] = "session_ended"]
       ELSE IF op[t].empty
       THEN /\ pc' = [pc EXCEPT ![t] = "return"]
            /\ status' = [status EXCEPT ![t] = "empty_message"]
       ELSE /\ pc' = [pc EXCEPT ![t] = "send_send"]
            /\ UNCHANGED status
    /\ UNCHANGED <<live_chats, conversations, vacation_mode, dbWriter, txn, op,
                   sent, adminOps, cleanupPc, botPc, botMsg, nextMsg, outbox,
                   llmCalls, agentRequests, backReached, endedByEnd, deactBy,
                   silenced>>
    /\ UNCHANGED nonLiveVars

\* LiveChatService.send: sent = send_telegram_message(user_id, message_text)
send_send(t) ==
    /\ pc[t] = "send_send"
    /\ \E ok \in BOOLEAN :
          /\ sent' = [sent EXCEPT ![t] = ok]
          /\ outbox' = IF ok THEN Delivered(outbox, op[t].user_id, "agent", 0)
                       ELSE outbox
          /\ pc' = [pc EXCEPT ![t] = IF ok THEN "send_save" ELSE "return"]
          /\ status' = [status EXCEPT ![t] = IF ok THEN @ ELSE "telegram_failed"]
    /\ UNCHANGED <<live_chats, conversations, vacation_mode, dbWriter, txn, op,
                   adminOps, cleanupPc, botPc, botMsg, nextMsg, llmCalls,
                   agentRequests, backReached, endedByEnd, deactBy, silenced>>
    /\ UNCHANGED nonLiveVars

\* LiveChatService.send: db.save_message(..., "assistant", message_text)
send_save(t) ==
    /\ pc[t] = "send_save"
    /\ dbWriter = NoThread
    /\ conversations' = save_message(conversations, op[t].user_id, "assistant",
                                     "agent", 0)
    /\ pc' = [pc EXCEPT ![t] = "return"]
    /\ status' = [status EXCEPT ![t] = "sent"]
    /\ UNCHANGED <<live_chats, vacation_mode, dbWriter, txn, op, sent, adminOps,
                   cleanupPc, botPc, botMsg, nextMsg, outbox, llmCalls,
                   agentRequests, backReached, endedByEnd, deactBy, silenced>>
    /\ UNCHANGED nonLiveVars

\* cleanup_stale_live_chats: SELECT COUNT(*) ... WHERE is_active = 1
cleanup_select ==
    /\ cleanupPc = "idle"
    /\ cleanupPc' = IF \E u \in Users : is_live_chat_active(u)
                    THEN "update" ELSE "done"
    /\ UNCHANGED <<live_chats, conversations, vacation_mode, dbWriter, txn, pc,
                   op, sent, status, adminOps, botPc, botMsg, nextMsg, outbox, llmCalls,
                   agentRequests, backReached, endedByEnd, deactBy, silenced>>
    /\ UNCHANGED nonLiveVars

\* cleanup_stale_live_chats: `if stale:` UPDATE ... WHERE is_active = 1
cleanup_update ==
    /\ cleanupPc = "update"
    /\ dbWriter = NoThread
    /\ live_chats' = DeactivateAll(live_chats)
    /\ cleanupPc' = "done"
    /\ endedByEnd' = [u \in Users |-> IF is_live_chat_active(u) THEN FALSE
                                      ELSE endedByEnd[u]]
    /\ deactBy' = [u \in Users |-> IF is_live_chat_active(u) THEN "none"
                                   ELSE deactBy[u]]
    /\ UNCHANGED <<conversations, vacation_mode, dbWriter, txn, pc, op, sent,
                   status, adminOps, botPc, botMsg, nextMsg, outbox, llmCalls,
                   agentRequests, backReached, silenced>>
    /\ UNCHANGED nonLiveVars

\* update_vacation_mode: the admin switches vacation mode on or off
update_vacation_mode ==
    /\ adminOps < MaxAdminOps
    /\ dbWriter = NoThread
    /\ vacation_mode' = ~vacation_mode
    /\ adminOps' = adminOps + 1
    /\ UNCHANGED <<live_chats, conversations, dbWriter, txn, pc, op, sent,
                   status, cleanupPc, botPc, botMsg, nextMsg, outbox,
                   llmCalls, agentRequests, backReached, endedByEnd, deactBy,
                   silenced>>
    /\ UNCHANGED nonLiveVars


(***************************************************************************)
(* Bot update pipeline: the decorator chains of src/bot/handlers.py        *)
(***************************************************************************)
\* decorators of the handler an update is dispatched to, outermost first:
\*   message_handler  = rate_limit_guard(live_chat_guard(...))
\*   booking_start    = vacation_guard_booking(rate_limit_guard_booking(
\*                          live_chat_guard_booking(...)))
GuardChain(kind) ==
    IF kind = "book" THEN <<"vacation", "rate", "live">> ELSE <<"rate", "live">>

\* _talk_to_agent_skip_ratelimit = vacation_guard_agent(live_chat_guard(...))
SkipRatelimitChain == <<"vacation", "live">>

BotFrame == UNCHANGED <<live_chats, vacation_mode, dbWriter, txn, pc, op, sent,
                        status, adminOps, cleanupPc, backReached, endedByEnd, deactBy,
                        nonLiveVars>>

\* observer: position in live_chats of u's active session, 0 without one
ActiveIndex(u) ==
    IF is_live_chat_active(u)
    THEN CHOOSE i \in 1..Len(live_chats) :
             live_chats[i].user_id = u /\ live_chats[i].is_active
    ELSE 0

\* the dispatcher hands the next update to its handler (one update at a time)
BotReceive ==
    /\ botPc = "idle"
    /\ nextMsg < MaxMsgs
    /\ \E u \in Users, k \in {"text", "agent_button", "book"}, h \in BOOLEAN :
          /\ (~h => k = "text")
          /\ botMsg' = [id |-> nextMsg + 1, user_id |-> u, kind |-> k,
                        hasText |-> h, chain |-> GuardChain(k),
                        after |-> "none", session |-> ActiveIndex(u)]
    /\ nextMsg' = nextMsg + 1
    /\ botPc' = "guards"
    /\ BotFrame
    /\ UNCHANGED <<conversations, outbox, llmCalls, agentRequests, silenced>>

\* vacation_guard_booking / vacation_guard_agent
vacation_guard ==
    /\ botPc = "guards"
    /\ botMsg.chain # <<>> /\ Head(botMsg.chain) = "vacation"
    /\ IF vacation_mode
       THEN /\ outbox' = Delivered(outbox, botMsg.user_id, "vacation", botMsg.id)
            /\ botPc' = "idle"
            /\ botMsg' = NoMsg
       ELSE /\ botMsg' = [botMsg EXCEPT !.chain = Tail(@)]
            /\ UNCHANGED <<outbox, botPc>>
    /\ BotFrame
    /\ UNCHANGED <<conversations, nextMsg, llmCalls, agentRequests, silenced>>

\* rate_limit_guard / rate_limit_guard_booking: bypassed during live chat;
\* otherwise check_rate_limit either blocks (canned reply) or passes
rate_limit_guard ==
    /\ botPc = "guards"
    /\ botMsg.chain # <<>> /\ Head(botMsg.chain) = "rate"
    /\ \E limited \in BOOLEAN :
          IF ~is_live_chat_active(botMsg.user_id) /\ limited
          THEN /\ outbox' = Delivered(outbox, botMsg.user_id, "rate_limit", botMsg.id)
               /\ botPc' = "idle"
               /\ botMsg' = NoMsg
          ELSE /\ botMsg' = [botMsg EXCEPT !.chain = Tail(@)]
               /\ UNCHANGED <<outbox, botPc>>
    /\ BotFrame
    /\ UNCHANGED <<conversations, nextMsg, llmCalls, agentRequests, silenced>>

\* observer: was the session of u that preceded this update closed by end(),
\* and had "bot is back" reached u by then
AfterEnd(u) ==
    IF ~endedByEnd[u] THEN "none"
    ELSE IF backReached[u] THEN "end_reached" ELSE "end_unreached"

\* live_chat_guard / live_chat_guard_booking: with an active session the
\* text is saved and the wrapper returns without calling the handler
live_chat_guard ==
    /\ botPc = "guards"
    /\ botMsg.chain # <<>> /\ Head(botMsg.chain) = "live"
    /\ IF is_live_chat_active(botMsg.user_id)
       THEN /\ dbWriter = NoThread
            /\ IF botMsg.hasText
               THEN /\ conversations' = save_message(conversations, botMsg.user_id,
                                                     "user", "update", botMsg.id)
                    /\ silenced' = silenced \cup {botMsg.id}
               ELSE UNCHANGED <<conversations, silenced>>
            /\ botPc' = "idle"
            /\ botMsg' = NoMsg
       ELSE /\ botMsg' = [botMsg EXCEPT !.chain = Tail(@),
                                         !.after = AfterEnd(botMsg.user_id)]
            /\ UNCHANGED <<conversations, silenced, botPc>>
    /\ BotFrame
    /\ UNCHANGED <<nextMsg, outbox, llmCalls, agentRequests>>

\* every guard passed: the handler body starts.
\*   message_handler: an update without message text raises (error_handler
\*   replies); the agent button is re-routed through
\*   _talk_to_agent_skip_ratelimit; other text is saved as a 'user' row and
\*   answered directly (greeting, hours, ...) or through _handle_rag_query
\*   talk_to_agent_handler: agent request, 'user' and 'assistant' rows
\*   booking_start: 'user' row, then generate_answer
handler_body ==
    /\ botPc = "guards"
    /\ botMsg.chain = <<>>
    /\ dbWriter = NoThread
    /\ \/ /\ botMsg.kind = "text" /\ ~botMsg.hasText
          /\ botPc' = "reply"
          /\ botMsg' = [botMsg EXCEPT !.kind = "error"]
          /\ UNCHANGED <<conversations, agentRequests>>
       \/ /\ botMsg.kind = "agent_button"
          /\ botMsg' = [botMsg EXCEPT !.kind = "agent", !.chain = SkipRatelimitChain]
          /\ UNCHANGED <<conversations, agentRequests, botPc>>
       \/ /\ botMsg.kind = "text" /\ botMsg.hasText
          /\ conversations' = save_message(conversations, botMsg.user_id, "user", "update", botMsg.id)
          /\ \E route \in {"persist", "llm"} : botPc' = route
          /\ UNCHANGED <<botMsg, agentRequests>>
       \/ /\ botMsg.kind = "agent"
          /\ agentRequests' = agentRequests \cup {botMsg.id}
          /\ conversations' = save_message(
                 save_message(conversations, botMsg.user_id, "user", "update", botMsg.id),
                 botMsg.user_id, "assistant", "reply", botMsg.id)
          /\ botPc' = "reply"
          /\ UNCHANGED botMsg
       \/ /\ botMsg.kind = "book"
          /\ conversations' = save_message(conversations, botMsg.user_id, "user", "update", botMsg.id)
          /\ botPc' = "llm"
          /\ UNCHANGED <<botMsg, agentRequests>>
    /\ BotFrame
    /\ UNCHANGED <<nextMsg, outbox, llmCalls, silenced>>

\* _generate_answer_async: generate_answer runs in a worker thread; its
\* answer either asks for a handoff or not (_should_handoff_to_human)
handler_llm ==
    /\ botPc = "llm"
    /\ llmCalls' = llmCalls \cup {botMsg.id}
    /\ \E handoff \in BOOLEAN :
          botMsg' = [botMsg EXCEPT !.kind = IF handoff THEN "handoff" ELSE @]
    /\ botPc' = "persist"
    /\ BotFrame
    /\ UNCHANGED <<conversations, nextMsg, outbox, agentRequests, silenced>>

\* the assistant row is saved before the reply: _handoff_to_human creates
\* the agent request and saves the fallback text; the answer paths save the
\* answer; booking_start saves nothing before its prompt
handler_persist ==
    /\ botPc = "persist"
    /\ dbWriter = NoThread
    /\ agentRequests' = IF botMsg.kind = "handoff"
                        THEN agentRequests \cup {botMsg.id} ELSE agentRequests
    /\ conversations' = IF botMsg.kind = "book" THEN conversations
                        ELSE save_message(conversations, botMsg.user_id,
                                          "assistant", "reply", botMsg.id)
    /\ botPc' = "reply"
    /\ BotFrame
    /\ UNCHANGED <<botMsg, nextMsg, outbox, llmCalls, silenced>>

\* update.message.reply_text(...): the bot-authored reply leaves
handler_reply ==
    /\ botPc = "reply"
    /\ outbox' = Delivered(outbox, botMsg.user_id, "bot", botMsg.id)
    /\ botPc' = "idle"
    /\ botMsg' = NoMsg
    /\ BotFrame
    /\ UNCHANGED <<conversations, nextMsg, llmCalls, agentRequests, silenced>>


(***************************************************************************)
(* Index staleness protocol (src/rag/engine.py)                            *)
(***************************************************************************)
\* `--bot` and `--admin` start one process each; "b1" stands for a worker
\* thread of the bot process, "a1" and "a2" for Flask threads of the admin
\* process.  _REBUILD_LOCK is a threading.RLock: one per process.
IndexThreads == {"b1", "a1", "a2"}
ProcOf(t) == IF t = "b1" \/ deployment = "single" THEN "bot" ELSE "admin"
Procs == {"bot", "admin"}

\* _stale_token: st_mtime_ns of the flag, None (0) when the file is absent
_stale_token == staleMtime

\* threads between their capture of start_stale_token and their clear step
InRebuildWindow(t) == ixPc[t] \in {"entries", "save", "clear"}

IndexFrame == UNCHANGED nonIndexVars

\* the filesystem timestamp advances
Tick ==
    /\ fsClock < MaxClock
    /\ fsClock' = fsClock + 1
    /\ UNCHANGED <<staleMtime, kbVersion, diskIndex, rebuildLock, ixPc, ixToken,
                   ixSnap, ixOps, markedDuring, absentAtClear, erasedOwn>>
    /\ IndexFrame

\* kb_add / kb_edit / kb_delete: the database write commits
kb_write(t) ==
    /\ t \in AdminThreads
    /\ ixPc[t] = "idle"
    /\ ixOps < MaxIndexOps
    /\ ixOps' = ixOps + 1
    /\ kbVersion' = kbVersion + 1
    /\ ixPc' = [ixPc EXCEPT ![t] = "mark"]
    /\ UNCHANGED <<staleMtime, fsClock, diskIndex, rebuildLock, ixToken, ixSnap,
                   markedDuring, absentAtClear, erasedOwn>>
    /\ IndexFrame

\* mark_index_stale: _INDEX_STALE_FLAG.touch(exist_ok=True) under the
\* index-state file lock
mark_index_stale(t) ==
    /\ ixPc[t] = "mark"
    /\ staleMtime' = fsClock
    /\ markedDuring' = [r \in IndexThreads |-> markedDuring[r] \/ InRebuildWindow(r)]
    /\ ixPc' = [ixPc EXCEPT ![t] = "idle"]
    /\ UNCHANGED <<fsClock, kbVersion, diskIndex, rebuildLock, ixToken, ixSnap,
                   ixOps, absentAtClear, erasedOwn>>
    /\ IndexFrame

\* rebuild_index: `with _REBUILD_LOCK:`
rebuild_index(t) ==
    /\ ixPc[t] = "idle"
    /\ rtPc[t] = "idle"
    /\ ixOps < MaxIndexOps
    /\ rebuildLock[ProcOf(t)] = NoThread
    /\ rebuildLock' = [rebuildLock EXCEPT ![ProcOf(t)] = t]
    /\ ixOps' = ixOps + 1
    /\ ixPc' = [ixPc EXCEPT ![t] = "capture"]
    /\ UNCHANGED <<staleMtime, fsClock, kbVersion, diskIndex, ixToken, ixSnap,
                   markedDuring, absentAtClear, erasedOwn>>
    /\ IndexFrame

\* rebuild_index: `with _index_state_lock(): start_stale_token = _stale_token()`
rebuild_capture(t) ==
    /\ ixPc[t] = "capture"
    /\ ixToken' = [ixToken EXCEPT ![t] = _stale_token]
    /\ markedDuring' = [markedDuring EXCEPT ![t] = FALSE]
    /\ absentAtClear' = [absentAtClear EXCEPT ![t] = FALSE]
    /\ erasedOwn' = [erasedOwn EXCEPT ![t] = FALSE]
    /\ ixPc' = [ixPc EXCEPT ![t] = "entries"]
    /\ UNCHANGED <<staleMtime, fsClock, kbVersion, diskIndex, rebuildLock, ixSnap,
                   ixOps>>
    /\ IndexFrame

\* rebuild_index: entries = db.get_all_kb_entries(active_only=True); the
\* chunks and embeddings are computed from what was read
rebuild_entries(t) ==
    /\ ixPc[t] = "entries"
    /\ ixSnap' = [ixSnap EXCEPT ![t] = kbVersion]
    /\ ixPc' = [ixPc EXCEPT ![t] = "save"]
    /\ UNCHANGED <<staleMtime, fsClock, kbVersion, diskIndex, rebuildLock, ixToken,
                   ixOps, markedDuring, absentAtClear, erasedOwn>>
    /\ IndexFrame

\* rebuild_index: get_embeddings_batch (or another call) raises; the
\* with-block releases _REBUILD_LOCK and nothing is saved or cleared
rebuild_raises(t) ==
    /\ ixPc[t] = "save"
    /\ IF rtPc[t] = "idle"
       THEN /\ rebuildLock' = [rebuildLock EXCEPT ![ProcOf(t)] = NoThread]
            /\ ixPc' = [ixPc EXCEPT ![t] = "idle"]
       ELSE /\ ixPc' = [ixPc EXCEPT ![t] = "raised"]
            /\ UNCHANGED rebuildLock
    /\ ixToken' = [ixToken EXCEPT ![t] = 0]
    /\ ixSnap' = [ixSnap EXCEPT ![t] = 0]
    /\ markedDuring' = [markedDuring EXCEPT ![t] = FALSE]
    /\ UNCHANGED <<staleMtime, fsClock, kbVersion, diskIndex, ixOps,
                   absentAtClear, erasedOwn>>
    /\ IndexFrame

\* rebuild_index: store.build_index(...); store.save() (both the empty-index
\* branches and the full build save before they clear)
rebuild_save(t) ==
    /\ ixPc[t] = "save"
    /\ diskIndex' = ixSnap[t]
    /\ ixPc' = [ixPc EXCEPT ![t] = "clear"]
    /\ UNCHANGED <<staleMtime, fsClock, kbVersion, rebuildLock, ixToken, ixSnap,
                   ixOps, markedDuring, absentAtClear, erasedOwn>>
    /\ IndexFrame

\* _maybe_clear_stale(start_token): nothing when start_token is None;
\* otherwise, under the index-state file lock, unlink the flag when
\* _stale_token() == start_token
_maybe_clear_stale(t) ==
    /\ ixPc[t] = "clear"
    /\ LET unlink == ixToken[t] # 0 /\ _stale_token = ixToken[t]
       IN  /\ staleMtime' = IF unlink THEN 0 ELSE staleMtime
           /\ absentAtClear' = [absentAtClear EXCEPT ![t] = unlink \/ staleMtime = 0]
           /\ erasedOwn' = [erasedOwn EXCEPT ![t] = unlink /\ markedDuring[t]]
    /\ ixPc' = [ixPc EXCEPT ![t] = "return"]
    /\ UNCHANGED <<fsClock, kbVersion, diskIndex, rebuildLock, ixToken, ixSnap,
                   ixOps, markedDuring>>
    /\ IndexFrame

\* rebuild_index returns normally: the with-block releases _REBUILD_LOCK
rebuild_return(t) ==
    /\ ixPc[t] = "return"
    /\ IF rtPc[t] = "idle"
       THEN /\ rebuildLock' = [rebuildLock EXCEPT ![ProcOf(t)] = NoThread]
            /\ ixPc' = [ixPc EXCEPT ![t] = "idle"]
       ELSE /\ ixPc' = [ixPc EXCEPT ![t] = "returned"]
            /\ UNCHANGED rebuildLock
    /\ ixToken' = [ixToken EXCEPT ![t] = 0]
    /\ ixSnap' = [ixSnap EXCEPT ![t] = 0]
    /\ markedDuring' = [markedDuring EXCEPT ![t] = FALSE]
    /\ absentAtClear' = [absentAtClear EXCEPT ![t] = FALSE]
    /\ erasedOwn' = [erasedOwn EXCEPT ![t] = FALSE]
    /\ UNCHANGED <<staleMtime, fsClock, kbVersion, diskIndex, ixOps>>
    /\ IndexFrame

\* retrieve(query), called by generate_answer in a worker thread of the bot
retrieve(t) ==
    /\ t \notin AdminThreads
    /\ rtPc[t] = "idle"
    /\ ixPc[t] = "idle"
    /\ rtCalls < MaxRetrieves
    /\ rtCalls' = rtCalls + 1
    /\ rtPc' = [rtPc EXCEPT ![t] = "check1"]
    /\ rtSawStale' = [rtSawStale EXCEPT ![t] = FALSE]
    /\ rtAbsent' = [rtAbsent EXCEPT ![t] = FALSE]
    /\ rtRebuilt' = [rtRebuilt EXCEPT ![t] = FALSE]
    /\ UNCHANGED <<deployment, indexVars>>
    /\ UNCHANGED nonRetrVars

\* if is_index_stale():
retrieve_check1(t) ==
    /\ rtPc[t] = "check1"
    /\ rtSawStale' = [rtSawStale EXCEPT ![t] = staleMtime # 0]
    /\ rtPc' = [rtPc EXCEPT ![t] = IF staleMtime # 0 THEN "lock" ELSE "store"]
    /\ UNCHANGED <<deployment, rtAbsent, rtRebuilt, rtCalls, indexVars>>
    /\ UNCHANGED nonRetrVars

\* with _REBUILD_LOCK:
retrieve_lock(t) ==
    /\ rtPc[t] = "lock"
    /\ rebuildLock[ProcOf(t)] = NoThread
    /\ rebuildLock' = [rebuildLock EXCEPT ![ProcOf(t)] = t]
    /\ rtPc' = [rtPc EXCEPT ![t] = "check2"]
    /\ UNCHANGED <<deployment, rtSawStale, rtAbsent, rtRebuilt, rtCalls>>
    /\ UNCHANGED <<staleMtime, fsClock, kbVersion, diskIndex, ixPc, ixToken,
                   ixSnap, ixOps, markedDuring, absentAtClear, erasedOwn>>
    /\ UNCHANGED nonRetrVars

\* C13 mutant: the sentinel is not looked at again and nothing is rebuilt
retrieve_check2_skips(t) ==
    /\ rtPc[t] = "check2"
    /\ rebuildLock' = [rebuildLock EXCEPT ![ProcOf(t)] = NoThread]
    /\ rtPc' = [rtPc EXCEPT ![t] = "store"]
    /\ UNCHANGED <<deployment, rtSawStale, rtAbsent, rtRebuilt, rtCalls>>
    /\ UNCHANGED <<staleMtime, fsClock, kbVersion, diskIndex, ixPc, ixToken,
                   ixSnap, ixOps, markedDuring, absentAtClear, erasedOwn>>
    /\ UNCHANGED nonRetrVars

\* if is_index_stale(): rebuild_index() (the RLock is entered again by its
\* owner); otherwise the with-block is left
retrieve_check2(t) ==
    /\ rtPc[t] = "check2"
    /\ IF staleMtime # 0
       THEN /\ rtRebuilt' = [rtRebuilt EXCEPT ![t] = TRUE]
            /\ rtPc' = [rtPc EXCEPT ![t] = "rebuild"]
            /\ ixPc' = [ixPc EXCEPT ![t] = "capture"]
            /\ UNCHANGED <<rtAbsent, rebuildLock>>
       ELSE /\ rtAbsent' = [rtAbsent EXCEPT ![t] = TRUE]
            /\ rebuildLock' = [rebuildLock EXCEPT ![ProcOf(t)] = NoThread]
            /\ rtPc' = [rtPc EXCEPT ![t] = "store"]
            /\ UNCHANGED <<rtRebuilt, ixPc>>
    /\ UNCHANGED <<deployment, rtSawStale, rtCalls>>
    /\ UNCHANGED <<staleMtime, fsClock, kbVersion, diskIndex, ixToken, ixSnap,
                   ixOps, markedDuring, absentAtClear, erasedOwn>>
    /\ UNCHANGED nonRetrVars

\* rebuild_index() came back to retrieve: from the call under the stale
\* test an exception is logged and the with-block is left either way; from
\* the call for an empty store an exception ends retrieve
retrieve_rebuilt(t) ==
    /\ rtPc[t] \in {"rebuild", "rebuild_empty"}
    /\ ixPc[t] \in {"returned", "raised"}
    /\ ixPc' = [ixPc EXCEPT ![t] = "idle"]
    /\ rebuildLock' = [rebuildLock EXCEPT ![ProcOf(t)] = NoThread]
    /\ rtPc' = [rtPc EXCEPT ![t] =
                  IF rtPc[t] = "rebuild" THEN "store"
                  ELSE IF ixPc[t] = "raised" THEN "idle" ELSE "search"]
    /\ UNCHANGED <<deployment, rtSawStale, rtAbsent, rtRebuilt, rtCalls>>
    /\ UNCHANGED <<staleMtime, fsClock, kbVersion, diskIndex, ixToken, ixSnap,
                   ixOps, markedDuring, absentAtClear, erasedOwn>>
    /\ UNCHANGED nonRetrVars

\* store = get_vector_store(); an empty store is rebuilt before the search
retrieve_store(t) ==
    /\ rtPc[t] = "store"
    /\ \/ /\ rtPc' = [rtPc EXCEPT ![t] = "search"]
          /\ UNCHANGED <<rebuildLock, ixPc>>
       \/ /\ rebuildLock[ProcOf(t)] = NoThread
          /\ rebuildLock' = [rebuildLock EXCEPT ![ProcOf(t)] = t]
          /\ ixPc' = [ixPc EXCEPT ![t] = "capture"]
          /\ rtPc' = [rtPc EXCEPT ![t] = "rebuild_empty"]
    /\ UNCHANGED <<deployment, rtSawStale, rtAbsent, rtRebuilt, rtCalls>>
    /\ UNCHANGED <<staleMtime, fsClock, kbVersion, diskIndex, ixToken, ixSnap,
                   ixOps, markedDuring, absentAtClear, erasedOwn>>
    /\ UNCHANGED nonRetrVars

\* query_embedding = get_embedding(query); store.search(...)
retrieve_search(t) ==
    /\ rtPc[t] = "search"
    /\ rtPc' = [rtPc EXCEPT ![t] = "idle"]
    /\ UNCHANGED <<deployment, rtSawStale, rtAbsent, rtRebuilt, rtCalls,
                   indexVars>>
    /\ UNCHANGED nonRetrVars


(***************************************************************************)
(* Conversation summarizer (src/llm.py, src/database.py)                   *)
(***************************************************************************)
\* maybe_summarize runs in asyncio.to_thread worker threads
SumThreads == {"s1", "s2", "s3"}
SumUsers == {"u1", "u2"}
\* map entries of users the model does not follow: one run-length entry
\* [user |-> "other", lock |-> 0, n |-> count]; their locks are never held
OtherUsers == "other"

\* len(_summarize_locks)
RECURSIVE MapLen(_)
MapLen(m) == IF m = <<>> THEN 0 ELSE Head(m).n + MapLen(Tail(m))

\* `user_id in _summarize_locks`
InMap(m, u) == \E i \in 1..Len(m) : m[i].user = u

\* _summarize_locks[user_id]
MapLock(m, u) == m[CHOOSE i \in 1..Len(m) : m[i].user = u].lock

\* `for uid in to_remove[:k]: del _summarize_locks[uid]` where to_remove is
\* the unlocked entries in insertion order
RECURSIVE Evict(_, _, _)
Evict(m, k, held) ==
    IF k = 0 \/ m = <<>> THEN m
    ELSE IF Head(m).lock \in held THEN <<Head(m)>> \o Evict(Tail(m), k, held)
    ELSE IF Head(m).n <= k THEN Evict(Tail(m), k - Head(m).n, held)
    ELSE <<[Head(m) EXCEPT !.n = @ - k]>> \o Tail(m)

\* maximum of a finite set of naturals, 0 for the empty set
MaxOf(S) == IF S = {} THEN 0 ELSE CHOOSE x \in S : \A y \in S : y <= x

\* _last_summarized_message_id: COALESCE(MAX(last_summarized_message_id), 0)
_last_summarized_message_id(u) ==
    MaxOf({summaries[u][i].last_summarized_message_id : i \in 1..Len(summaries[u])})

\* ids of the conversation rows `WHERE user_id = ? AND id > ?`
Unsummarized(u) ==
    {conversations[i].id : i \in {j \in 1..Len(conversations) :
        /\ conversations[j].user_id = u
        /\ conversations[j].id > _last_summarized_message_id(u)}}

\* get_unsummarized_message_count
get_unsummarized_message_count(u) == Cardinality(Unsummarized(u))

\* the query without its LIMIT
get_messages_unlimited(u, limit) == Unsummarized(u)

\* get_messages_for_summarization: ORDER BY id ASC LIMIT ?
get_messages_for_summarization(u, limit) ==
    {x \in Unsummarized(u) : Cardinality({y \in Unsummarized(u) : y < x}) < limit}

\* get_latest_summary: ORDER BY id DESC LIMIT 1 (None: nothing covered)
get_latest_summary(u) ==
    IF summaries[u] = <<>> THEN {} ELSE summaries[u][Len(summaries[u])].covered

\* threads that hold a lock for u: from lock.acquire to lock.release
Summarizing(u) ==
    {t \in SumThreads : sumUser[t] = u /\ sumPc[t] \in
        {"count", "fetch", "latest", "generate", "failed", "save", "release"}}

SumFrame == UNCHANGED nonSumVars

\* a conversation row is saved (db.save_message by any handler)
sum_save_message ==
    /\ sumMsgs < MaxSumMsgs + summary_threshold - 1
    /\ \E u \in SumUsers :
          conversations' = save_message(conversations, u, "user", "update", 0)
    /\ sumMsgs' = sumMsgs + 1
    /\ UNCHANGED <<summaries, _summarize_locks, heldLocks, nextLock, sumPc,
                   sumUser, sumLock, sumBatch, sumExisting, sumCalls>>
    /\ SumFrame

\* _summarize_safe: asyncio.to_thread(maybe_summarize, user_id)
maybe_summarize(t) ==
    /\ sumPc[t] = "idle"
    /\ sumCalls < MaxSumCalls
    /\ \E u \in SumUsers : sumUser' = [sumUser EXCEPT ![t] = u]
    /\ sumCalls' = sumCalls + 1
    /\ sumPc' = [sumPc EXCEPT ![t] = "get_lock"]
    /\ UNCHANGED <<conversations, summaries, _summarize_locks, heldLocks,
                   nextLock, sumLock, sumBatch, sumExisting, sumMsgs>>
    /\ SumFrame

\* C36 mutant: a lock is inserted without eviction
_get_user_lock_no_eviction(t) ==
    /\ sumPc[t] = "get_lock"
    /\ LET u == sumUser[t]
       IN  IF InMap(_summarize_locks, u)
           THEN /\ sumLock' = [sumLock EXCEPT ![t] = MapLock(_summarize_locks, u)]
                /\ UNCHANGED <<_summarize_locks, nextLock>>
           ELSE /\ _summarize_locks' = Append(_summarize_locks,
                                              [user |-> u, lock |-> nextLock, n |-> 1])
                /\ sumLock' = [sumLock EXCEPT ![t] = nextLock]
                /\ nextLock' = nextLock + 1
    /\ sumPc' = [sumPc EXCEPT ![t] = "acquire"]
    /\ UNCHANGED <<conversations, summaries, heldLocks, sumUser, sumBatch,
                   sumExisting, sumCalls, sumMsgs>>
    /\ SumFrame

\* _get_user_lock, the whole body under _summarize_locks_guard
_get_user_lock(t) ==
    /\ sumPc[t] = "get_lock"
    /\ LET u == sumUser[t]
           len == MapLen(_summarize_locks)
           kept == IF len >= _MAX_LOCKS
                   THEN Evict(_summarize_locks, len - _MAX_LOCKS + 1, heldLocks)
                   ELSE _summarize_locks
       IN  IF InMap(_summarize_locks, u)
           THEN /\ sumLock' = [sumLock EXCEPT ![t] = MapLock(_summarize_locks, u)]
                /\ UNCHANGED <<_summarize_locks, nextLock>>
           ELSE /\ _summarize_locks' = Append(kept, [user |-> u, lock |-> nextLock, n |-> 1])
                /\ sumLock' = [sumLock EXCEPT ![t] = nextLock]
                /\ nextLock' = nextLock + 1
    /\ sumPc' = [sumPc EXCEPT ![t] = "acquire"]
    /\ UNCHANGED <<conversations, summaries, heldLocks, sumUser, sumBatch,
                   sumExisting, sumCalls, sumMsgs>>
    /\ SumFrame

\* maybe_summarize: `if not lock.acquire(blocking=False): return`
lock_acquire(t) ==
    /\ sumPc[t] = "acquire"
    /\ IF sumLock[t] \in heldLocks
       THEN /\ sumPc' = [sumPc EXCEPT ![t] = "idle"]
            /\ sumLock' = [sumLock EXCEPT ![t] = 0]
            /\ UNCHANGED heldLocks
       ELSE /\ heldLocks' = heldLocks \cup {sumLock[t]}
            /\ sumPc' = [sumPc EXCEPT ![t] = "count"]
            /\ UNCHANGED sumLock
    /\ UNCHANGED <<conversations, summaries, _summarize_locks, nextLock, sumUser,
                   sumBatch, sumExisting, sumCalls, sumMsgs>>
    /\ SumFrame

\* maybe_summarize: `if unsummarized_count < SUMMARY_THRESHOLD: return`
sum_count(t) ==
    /\ sumPc[t] = "count"
    /\ sumPc' = [sumPc EXCEPT ![t] =
          IF get_unsummarized_message_count(sumUser[t]) < summary_threshold
          THEN "release" ELSE "fetch"]
    /\ UNCHANGED <<conversations, summaries, _summarize_locks, heldLocks,
                   nextLock, sumUser, sumLock, sumBatch, sumExisting, sumCalls,
                   sumMsgs>>
    /\ SumFrame

\* maybe_summarize: messages_to_summarize = get_messages_for_summarization(
\* user_id, SUMMARY_THRESHOLD); `if not messages_to_summarize: return`
sum_fetch(t) ==
    /\ sumPc[t] = "fetch"
    /\ LET batch == get_messages_for_summarization(sumUser[t], summary_threshold)
       IN  /\ sumBatch' = [sumBatch EXCEPT ![t] = batch]
           /\ sumPc' = [sumPc EXCEPT ![t] = IF batch = {} THEN "release" ELSE "latest"]
    /\ UNCHANGED <<conversations, summaries, _summarize_locks, heldLocks,
                   nextLock, sumUser, sumLock, sumExisting, sumCalls, sumMsgs>>
    /\ SumFrame

\* maybe_summarize: latest = db.get_latest_summary(user_id)
sum_latest(t) ==
    /\ sumPc[t] = "latest"
    /\ sumExisting' = [sumExisting EXCEPT ![t] = get_latest_summary(sumUser[t])]
    /\ sumPc' = [sumPc EXCEPT ![t] = "generate"]
    /\ UNCHANGED <<conversations, summaries, _summarize_locks, heldLocks,
                   nextLock, sumUser, sumLock, sumBatch, sumCalls, sumMsgs>>
    /\ SumFrame

\* _generate_summary: the LLM call returns the merged text, or None on
\* failure
_generate_summary(t) ==
    /\ sumPc[t] = "generate"
    /\ \E ok \in BOOLEAN :
          sumPc' = [sumPc EXCEPT ![t] = IF ok THEN "save" ELSE "failed"]
    /\ UNCHANGED <<conversations, summaries, _summarize_locks, heldLocks,
                   nextLock, sumUser, sumLock, sumBatch, sumExisting, sumCalls,
                   sumMsgs>>
    /\ SumFrame

\* a failed generation saved as if it were a summary
summary_none_saved(t) ==
    /\ sumPc[t] = "failed"
    /\ LET u == sumUser[t]
       IN  summaries' = [summaries EXCEPT ![u] =
               <<[last_summarized_message_id |-> MaxOf(sumBatch[t]),
                  covered |-> sumExisting[t] \cup sumBatch[t]]>>]
    /\ sumPc' = [sumPc EXCEPT ![t] = "release"]
    /\ UNCHANGED <<conversations, _summarize_locks, heldLocks, nextLock, sumUser,
                   sumLock, sumBatch, sumExisting, sumCalls, sumMsgs>>
    /\ SumFrame

\* maybe_summarize: `if summary_text is None: return`, nothing is saved
summary_none(t) ==
    /\ sumPc[t] = "failed"
    /\ sumPc' = [sumPc EXCEPT ![t] = "release"]
    /\ UNCHANGED <<conversations, summaries, _summarize_locks, heldLocks,
                   nextLock, sumUser, sumLock, sumBatch, sumExisting, sumCalls,
                   sumMsgs>>
    /\ SumFrame

\* save_conversation_summary with last_msg_id = max(m["id"] ...): one
\* transaction that deletes the user's rows and inserts the merged one; a
\* falsy high-water mark keeps the previous one
save_conversation_summary(t) ==
    /\ sumPc[t] = "save"
    /\ LET u == sumUser[t]
           last_msg_id == MaxOf(sumBatch[t])
           mark == IF last_msg_id = 0 THEN _last_summarized_message_id(u)
                   ELSE last_msg_id
       IN  summaries' = [summaries EXCEPT ![u] =
               <<[last_summarized_message_id |-> mark,
                  covered |-> sumExisting[t] \cup sumBatch[t]]>>]
    /\ sumPc' = [sumPc EXCEPT ![t] = "release"]
    /\ UNCHANGED <<conversations, _summarize_locks, heldLocks, nextLock, sumUser,
                   sumLock, sumBatch, sumExisting, sumCalls, sumMsgs>>
    /\ SumFrame

\* maybe_summarize: `finally: lock.release()`
lock_release(t) ==
    /\ sumPc[t] = "release"
    /\ heldLocks' = heldLocks \ {sumLock[t]}
    /\ sumPc' = [sumPc EXCEPT ![t] = "idle"]
    /\ sumLock' = [sumLock EXCEPT ![t] = 0]
    /\ sumBatch' = [sumBatch EXCEPT ![t] = {}]
    /\ sumExisting' = [sumExisting EXCEPT ![t] = {}]
    /\ UNCHANGED <<conversations, summaries, _summarize_locks, nextLock, sumUser,
                   sumCalls, sumMsgs>>
    /\ SumFrame


(***************************************************************************)
(* Broadcast worker (src/broadcast_service.py)                             *)
(***************************************************************************)
\* table broadcasts
create_broadcast(n) ==
    [status |-> "queued", recipient_count |-> n,
     sent_count |-> 0, failed_count |-> 0]

mark_broadcast_sending(b) == [b EXCEPT !.status = "sending"]

update_broadcast_progress(b, s, f) ==
    [b EXCEPT !.status = "sending", !.sent_count = s, !.failed_count = f]

complete_broadcast(b, s, f) ==
    [b EXCEPT !.status = "completed", !.sent_count = s, !.failed_count = f]

fail_broadcast(b) == [b EXCEPT !.status = "failed"]

\* what bot.send_message answers: delivered, or one of the exceptions the
\* loop tells apart
SendOutcomes == {"ok", "Forbidden", "RetryAfter", "TimedOut", "Exception"}
\* the retry gets the same answers; inside the RetryAfter handler every
\* exception other than Forbidden is handled as Exception
RetryOutcomes == SendOutcomes

\* the awaits of send_broadcast: a cancellation is delivered there
AwaitPcs == {"initialize", "send", "retry_sleep", "retry", "sleep", "shutdown"}

BcastFrame == UNCHANGED nonBcastVars /\ UNCHANGED bcOutcome

\* the coroutine returns or lets an exception out
TaskEnd(how) ==
    /\ bcPc' = "ended"
    /\ bcTask' = how
    /\ UNCHANGED bcPending

\* the try block is left: `finally` shuts the bot down if it was started here
Finally(how) ==
    IF needs_init
    THEN /\ bcPc' = "shutdown"
         /\ bcPending' = how
         /\ UNCHANGED bcTask
    ELSE TaskEnd(how)

start_broadcast_task(mode, init) ==
    /\ bcPc = "idle"
    /\ bcPc' = "scheduled"
    /\ bcMode' = mode
    /\ needs_init' = init
    /\ UNCHANGED <<broadcast, recipients, unsubscribed, bcI, bcSent, bcFailed,
                   bcAttempts, bcPending, bcTask, bcHandled, ckSent, ckFailed>>
    /\ BcastFrame

send_broadcast ==
    /\ bcPc = "scheduled"
    /\ bcPc' = IF needs_init THEN "initialize" ELSE "mark"
    /\ UNCHANGED <<broadcast, recipients, unsubscribed, bcMode, needs_init,
                   bcI, bcSent, bcFailed, bcAttempts, bcPending, bcTask,
                   bcHandled, ckSent, ckFailed>>
    /\ BcastFrame

\* await bot.initialize(), ahead of the try block
bot_initialize ==
    /\ bcPc = "initialize"
    /\ \/ bcPc' = "mark" /\ UNCHANGED <<bcTask, bcPending>>
       \/ TaskEnd("raised")
    /\ UNCHANGED <<broadcast, recipients, unsubscribed, bcMode, needs_init,
                   bcI, bcSent, bcFailed, bcAttempts, bcHandled, ckSent,
                   ckFailed>>
    /\ BcastFrame

\* sent = 0; failed = 0; db.mark_broadcast_sending(broadcast_id)
mark_sending ==
    /\ bcPc = "mark"
    /\ bcSent' = 0
    /\ bcFailed' = 0
    /\ \/ /\ broadcast' = mark_broadcast_sending(broadcast)
          /\ bcPc' = "loop"
          /\ UNCHANGED <<bcTask, bcPending>>
       \/ /\ Finally("raised")
          /\ UNCHANGED broadcast
    /\ UNCHANGED <<recipients, unsubscribed, bcMode, needs_init, bcI,
                   bcAttempts, bcHandled, ckSent, ckFailed>>
    /\ BcastFrame

\* for i, user_id in enumerate(recipients)
loop_next ==
    /\ bcPc = "loop"
    /\ IF bcI < recipients
       THEN bcPc' = "send" /\ bcAttempts' = 0
       ELSE bcPc' = "complete" /\ UNCHANGED bcAttempts
    /\ UNCHANGED <<broadcast, recipients, unsubscribed, bcMode, needs_init,
                   bcI, bcSent, bcFailed, bcPending, bcTask, bcHandled,
                   ckSent, ckFailed>>
    /\ bcOutcome' = "none"
    /\ UNCHANGED nonBcastVars

\* C7 mutant: the rate-limited first attempt is counted as a failure too
send_message_counts_rate_limited ==
    /\ bcPc = "send"
    /\ bcAttempts' = bcAttempts + 1
    /\ \E outcome \in SendOutcomes :
          /\ bcOutcome' = outcome
          /\ CASE outcome = "ok" ->
                    /\ bcSent' = bcSent + 1
                    /\ bcPc' = "progress"
                    /\ UNCHANGED bcFailed
               [] outcome = "Forbidden" ->
                    /\ bcPc' = "unsubscribe"
                    /\ UNCHANGED <<bcSent, bcFailed>>
               [] outcome = "RetryAfter" ->
                    /\ bcFailed' = bcFailed + 1
                    /\ bcPc' = "retry_sleep"
                    /\ UNCHANGED bcSent
               [] OTHER ->
                    /\ bcFailed' = bcFailed + 1
                    /\ bcPc' = "progress"
                    /\ UNCHANGED bcSent
    /\ UNCHANGED <<broadcast, recipients, unsubscribed, bcMode, needs_init,
                   bcI, bcPending, bcTask, bcHandled, ckSent, ckFailed>>
    /\ UNCHANGED nonBcastVars

\* await bot.send_message(...), first attempt, and the except clauses
send_message ==
    /\ bcPc = "send"
    /\ bcAttempts' = bcAttempts + 1
    /\ \E outcome \in SendOutcomes :
          /\ bcOutcome' = outcome
          /\ CASE outcome = "ok" ->
                    /\ bcSent' = bcSent + 1
                    /\ bcPc' = "progress"
                    /\ UNCHANGED bcFailed
               [] outcome = "Forbidden" ->
                    /\ bcPc' = "unsubscribe"
                    /\ UNCHANGED <<bcSent, bcFailed>>
               [] outcome = "RetryAfter" ->
                    /\ bcPc' = "retry_sleep"
                    /\ UNCHANGED <<bcSent, bcFailed>>
               [] OTHER ->
                    /\ bcFailed' = bcFailed + 1
                    /\ bcPc' = "progress"
                    /\ UNCHANGED bcSent
    /\ UNCHANGED <<broadcast, recipients, unsubscribed, bcMode, needs_init,
                   bcI, bcPending, bcTask, bcHandled, ckSent, ckFailed>>
    /\ UNCHANGED nonBcastVars

\* except Forbidden: db.unsubscribe_user(user_id); failed += 1
\* (a database error raised here leaves the loop)
unsubscribe_user ==
    /\ bcPc = "unsubscribe"
    /\ \/ /\ unsubscribed' = unsubscribed + 1
          /\ bcFailed' = bcFailed + 1
          /\ bcPc' = "progress"
          /\ UNCHANGED <<bcTask, bcPending>>
       \/ /\ Finally("raised")
          /\ UNCHANGED <<unsubscribed, bcFailed>>
    /\ UNCHANGED <<broadcast, recipients, bcMode, needs_init, bcI, bcSent,
                   bcAttempts, bcHandled, ckSent, ckFailed>>
    /\ BcastFrame

\* except RetryAfter: await asyncio.sleep(e.retry_after)
retry_after_sleep ==
    /\ bcPc = "retry_sleep"
    /\ bcPc' = "retry"
    /\ UNCHANGED <<broadcast, recipients, unsubscribed, bcMode, needs_init,
                   bcI, bcSent, bcFailed, bcAttempts, bcPending, bcTask,
                   bcHandled, ckSent, ckFailed>>
    /\ BcastFrame

\* the RetryAfter handler going back to sleep on a second RetryAfter
retry_send_again ==
    /\ bcPc = "retry"
    /\ bcAttempts' = bcAttempts + 1
    /\ \E outcome \in RetryOutcomes :
          /\ bcOutcome' = outcome
          /\ CASE outcome = "ok" ->
                    /\ bcSent' = bcSent + 1
                    /\ bcPc' = "progress"
                    /\ UNCHANGED bcFailed
               [] outcome = "Forbidden" ->
                    /\ bcPc' = "unsubscribe"
                    /\ UNCHANGED <<bcSent, bcFailed>>
               [] outcome = "RetryAfter" ->
                    /\ bcPc' = "retry"
                    /\ UNCHANGED <<bcSent, bcFailed>>
               [] OTHER ->
                    /\ bcFailed' = bcFailed + 1
                    /\ bcPc' = "progress"
                    /\ UNCHANGED bcSent
    /\ UNCHANGED <<broadcast, recipients, unsubscribed, bcMode, needs_init,
                   bcI, bcPending, bcTask, bcHandled, ckSent, ckFailed>>
    /\ UNCHANGED nonBcastVars

\* the one retry inside the RetryAfter handler
retry_send ==
    /\ bcPc = "retry"
    /\ bcAttempts' = bcAttempts + 1
    /\ \E outcome \in RetryOutcomes :
          /\ bcOutcome' = outcome
          /\ CASE outcome = "ok" ->
                    /\ bcSent' = bcSent + 1
                    /\ bcPc' = "progress"
                    /\ UNCHANGED bcFailed
               [] outcome = "Forbidden" ->
                    /\ bcPc' = "unsubscribe"
                    /\ UNCHANGED <<bcSent, bcFailed>>
               [] OTHER ->
                    /\ bcFailed' = bcFailed + 1
                    /\ bcPc' = "progress"
                    /\ UNCHANGED bcSent
    /\ UNCHANGED <<broadcast, recipients, unsubscribed, bcMode, needs_init,
                   bcI, bcPending, bcTask, bcHandled, ckSent, ckFailed>>
    /\ UNCHANGED nonBcastVars

\* if (i + 1) % _PROGRESS_UPDATE_INTERVAL == 0: db.update_broadcast_progress
progress_update ==
    /\ bcPc = "progress"
    /\ IF (bcI + 1) % _PROGRESS_UPDATE_INTERVAL = 0
       THEN \/ /\ broadcast' =
                     update_broadcast_progress(broadcast, bcSent, bcFailed)
               /\ ckSent' = bcSent
               /\ ckFailed' = bcFailed
               /\ bcPc' = "sleep"
               /\ UNCHANGED <<bcTask, bcPending>>
            \/ /\ Finally("raised")
               /\ UNCHANGED <<broadcast, ckSent, ckFailed>>
       ELSE /\ bcPc' = "sleep"
            /\ UNCHANGED <<broadcast, ckSent, ckFailed, bcTask, bcPending>>
    /\ UNCHANGED <<recipients, unsubscribed, bcMode, needs_init, bcI, bcSent,
                   bcFailed, bcAttempts, bcHandled>>
    /\ BcastFrame

\* await asyncio.sleep(_SEND_DELAY), then the next recipient
send_delay ==
    /\ bcPc = "sleep"
    /\ bcI' = bcI + 1
    /\ bcPc' = "loop"
    /\ UNCHANGED <<broadcast, recipients, unsubscribed, bcMode, needs_init,
                   bcSent, bcFailed, bcAttempts, bcPending, bcTask, bcHandled,
                   ckSent, ckFailed>>
    /\ BcastFrame

\* db.complete_broadcast(broadcast_id, sent, failed)
complete ==
    /\ bcPc = "complete"
    /\ \/ /\ broadcast' = complete_broadcast(broadcast, bcSent, bcFailed)
          /\ ckSent' = bcSent
          /\ ckFailed' = bcFailed
          /\ Finally("finished")
       \/ /\ Finally("raised")
          /\ UNCHANGED <<broadcast, ckSent, ckFailed>>
    /\ UNCHANGED <<recipients, unsubscribed, bcMode, needs_init, bcI, bcSent,
                   bcFailed, bcAttempts, bcHandled>>
    /\ BcastFrame

\* finally: await bot.shutdown(); an Exception it raises is logged
bot_shutdown ==
    /\ bcPc = "shutdown"
    /\ TaskEnd(bcPending)
    /\ UNCHANGED <<broadcast, recipients, unsubscribed, bcMode, needs_init,
                   bcI, bcSent, bcFailed, bcAttempts, bcHandled, ckSent,
                   ckFailed>>
    /\ BcastFrame

\* the event loop cancels the task: CancelledError is raised at the await
\* the coroutine is suspended in (or the task never starts)
cancel ==
    /\ bcMode = "loop"
    /\ bcPc \in AwaitPcs \cup {"scheduled"}
    /\ IF bcPc \in {"scheduled", "initialize", "shutdown"}
       THEN TaskEnd("cancelled")
       ELSE Finally("cancelled")
    /\ UNCHANGED <<broadcast, recipients, unsubscribed, bcMode, needs_init,
                   bcI, bcSent, bcFailed, bcAttempts, bcHandled, ckSent,
                   ckFailed>>
    /\ BcastFrame

\* C8 mutant: the done callback looks at future.exception() only
_handle_future_error_skips_cancelled ==
    /\ bcMode = "loop"
    /\ bcPc = "ended"
    /\ ~bcHandled
    /\ bcHandled' = TRUE
    /\ broadcast' = IF bcTask = "raised"
                    THEN fail_broadcast(broadcast)
                    ELSE broadcast
    /\ UNCHANGED <<recipients, unsubscribed, bcPc, bcMode, needs_init, bcI,
                   bcSent, bcFailed, bcAttempts, bcPending, bcTask, ckSent,
                   ckFailed>>
    /\ BcastFrame

\* done callback of the future returned by run_coroutine_threadsafe
_handle_future_error ==
    /\ bcMode = "loop"
    /\ bcPc = "ended"
    /\ ~bcHandled
    /\ bcHandled' = TRUE
    /\ broadcast' = IF bcTask = "cancelled"
                    THEN fail_broadcast(broadcast)
                    ELSE IF bcTask = "raised"
                         THEN fail_broadcast(broadcast)
                         ELSE broadcast
    /\ UNCHANGED <<recipients, unsubscribed, bcPc, bcMode, needs_init, bcI,
                   bcSent, bcFailed, bcAttempts, bcPending, bcTask, ckSent,
                   ckFailed>>
    /\ BcastFrame

\* fallback thread: asyncio.run(send_broadcast(...)) inside try / except
_run ==
    /\ bcMode = "thread"
    /\ bcPc = "ended"
    /\ ~bcHandled
    /\ bcHandled' = TRUE
    /\ broadcast' = IF bcTask = "raised"
                    THEN fail_broadcast(broadcast)
                    ELSE broadcast
    /\ UNCHANGED <<recipients, unsubscribed, bcPc, bcMode, needs_init, bcI,
                   bcSent, bcFailed, bcAttempts, bcPending, bcTask, ckSent,
                   ckFailed>>
    /\ BcastFrame

(***************************************************************************)
(* Referral code send flow (src/referral_service.py, src/database.py)      *)
(***************************************************************************)
RefUsers == {"u1", "u2"}
\* admin request threads and bot workers that run the flow
RefThreads == {"r1", "r2"}

RefFrame == UNCHANGED nonRefVars

\* a row as generate_referral_code inserts it
NewReferral(u) ==
    [referrer_id |-> u, referred_id |-> "none", status |-> "pending",
     completed_at |-> FALSE]

\* ids of the rows of `rows` whose referrer_id is u
RowsOf(rows, u) == {i \in DOMAIN rows : rows[i].referrer_id = u}

\* C9 mutant: the update is not guarded by the present value of the flag
mark_referral_code_as_sent_unguarded(u) == RowsOf(referrals, u) # {}

\* return value of mark_sent: the guarded transition unset -> set took place
mark_referral_code_as_sent(u) == RowsOf(referrals, u) # {} /\ ~code_sent[u]

unmark_referral_code_sent(u) == [code_sent EXCEPT ![u] = FALSE]

try_send_referral_code(t, u) ==
    /\ refPc[t] = "idle"
    /\ refCalls < MaxRefCalls
    /\ refCalls' = refCalls + 1
    /\ refPc' = [refPc EXCEPT ![t] = "generate"]
    /\ refUser' = [refUser EXCEPT ![t] = u]
    /\ refResult' = [refResult EXCEPT ![t] = FALSE]
    /\ UNCHANGED <<referrals, code_sent, refDelivered, refFailed, lateSend,
                   markCalls, markTrue>>
    /\ RefFrame

\* generate_referral_code: SELECT code ... WHERE referrer_id = ?
generate_select(t) ==
    /\ refPc[t] = "generate"
    /\ refPc' = [refPc EXCEPT ![t] =
                    IF RowsOf(referrals, refUser[t]) # {}
                    THEN "mark" ELSE "insert"]
    /\ UNCHANGED <<referrals, code_sent, refUser, refResult, refCalls,
                   refDelivered, refFailed, lateSend, markCalls, markTrue>>
    /\ RefFrame

\* generate_referral_code: INSERT INTO referrals (referrer_id, code)
generate_insert(t) ==
    /\ refPc[t] = "insert"
    /\ crWriter = NoThread
    /\ referrals' = Append(referrals, NewReferral(refUser[t]))
    /\ refPc' = [refPc EXCEPT ![t] = "mark"]
    /\ UNCHANGED <<code_sent, refUser, refResult, refCalls, refDelivered,
                   refFailed, lateSend, markCalls, markTrue>>
    /\ RefFrame

\* if not db.mark_referral_code_as_sent(user_id): return False
mark_sent(t) ==
    /\ refPc[t] = "mark"
    /\ LET u == refUser[t]
           won == mark_referral_code_as_sent(u)
       IN  /\ code_sent' = [code_sent EXCEPT ![u] = @ \/ won]
           /\ markCalls' = [markCalls EXCEPT ![u] = @ + 1]
           /\ markTrue' = [markTrue EXCEPT ![u] = @ + (IF won THEN 1 ELSE 0)]
           /\ refPc' = [refPc EXCEPT ![t] = IF won THEN "send" ELSE "return"]
    /\ UNCHANGED <<referrals, refUser, refResult, refCalls, refDelivered,
                   refFailed, lateSend>>
    /\ RefFrame

\* success = send_fn(text); an exception send_fn raises makes it False
send_fn(t) ==
    /\ refPc[t] = "send"
    /\ LET u == refUser[t]
       IN  /\ lateSend' = [lateSend EXCEPT ![u] = @ \/ refDelivered[u] >= 1]
           /\ \E outcome \in {"True", "False", "raises"} :
                 IF outcome = "True"
                 THEN /\ refDelivered' = [refDelivered EXCEPT ![u] = @ + 1]
                      /\ refResult' = [refResult EXCEPT ![t] = TRUE]
                      /\ refPc' = [refPc EXCEPT ![t] = "return"]
                      /\ UNCHANGED refFailed
                 ELSE /\ refFailed' = [refFailed EXCEPT ![u] = TRUE]
                      /\ refPc' = [refPc EXCEPT ![t] = "unmark"]
                      /\ UNCHANGED <<refDelivered, refResult>>
    /\ UNCHANGED <<referrals, code_sent, refUser, refCalls, markCalls,
                   markTrue>>
    /\ RefFrame

\* C10 mutant: a failed send returns False and leaves the flag set
unmark_sent_skipped(t) ==
    /\ refPc[t] = "unmark"
    /\ refPc' = [refPc EXCEPT ![t] = "return"]
    /\ UNCHANGED <<referrals, code_sent, refUser, refResult, refCalls,
                   refDelivered, refFailed, lateSend, markCalls, markTrue>>
    /\ RefFrame

\* if not success: db.unmark_referral_code_sent(user_id); return False
unmark_sent(t) ==
    /\ refPc[t] = "unmark"
    /\ code_sent' = unmark_referral_code_sent(refUser[t])
    /\ markCalls' = [markCalls EXCEPT ![refUser[t]] = 0]
    /\ markTrue' = [markTrue EXCEPT ![refUser[t]] = 0]
    /\ refPc' = [refPc EXCEPT ![t] = "return"]
    /\ UNCHANGED <<referrals, refUser, refResult, refCalls, refDelivered,
                   refFailed, lateSend>>
    /\ RefFrame

\* the flow hands its result to the caller
referral_return(t) ==
    /\ refPc[t] = "return"
    /\ refPc' = [refPc EXCEPT ![t] = "idle"]
    /\ refUser' = [refUser EXCEPT ![t] = "none"]
    /\ refResult' = [refResult EXCEPT ![t] = FALSE]
    /\ UNCHANGED <<referrals, code_sent, refCalls, refDelivered, refFailed,
                   lateSend, markCalls, markTrue>>
    /\ RefFrame

(***************************************************************************)
(* Referral registration and completion (src/database.py)                  *)
(***************************************************************************)
\* users that follow referral links and get appointments confirmed
CreditUsers == {"u1", "u2", "u3"}
\* admin request threads that confirm appointments
CompleteThreads == {"c1", "c2"}

NoTxn == [referrals |-> <<>>, credits |-> <<>>]

CreditFrame == UNCHANGED nonCreditVars

\* start_command: db.register_referral(arg, user_id), called on the bot's
\* event loop, one update at a time
register_referral(code, u) ==
    /\ regPc = "idle"
    /\ regCalls < MaxRegCalls
    /\ regCalls' = regCalls + 1
    /\ regPc' = "select"
    /\ regCode' = code
    /\ regUser' = u
    /\ UNCHANGED <<referrals, credits, crWriter, crTxn, regResult, cmpPc,
                   cmpUser, cmpRow, cmpCalls>>
    /\ CreditFrame

\* SELECT * FROM referrals WHERE code = ?, and the three tests on the row
register_select ==
    /\ regPc = "select"
    /\ regPc' = IF \/ regCode \notin DOMAIN referrals
                   \/ referrals[regCode].referrer_id = regUser
                   \/ referrals[regCode].referred_id # "none"
                THEN "return"
                ELSE "existing"
    /\ UNCHANGED <<referrals, credits, crWriter, crTxn, regCode, regUser,
                   regResult, regCalls, cmpPc, cmpUser, cmpRow, cmpCalls>>
    /\ CreditFrame

\* C12 mutant: the new user is not looked up among the referred users
register_existing_unchecked ==
    /\ regPc = "existing"
    /\ regPc' = "update"
    /\ UNCHANGED <<referrals, credits, crWriter, crTxn, regCode, regUser,
                   regResult, regCalls, cmpPc, cmpUser, cmpRow, cmpCalls>>
    /\ CreditFrame

\* SELECT 1 FROM referrals WHERE referred_id = ?
register_existing ==
    /\ regPc = "existing"
    /\ regPc' = IF \E i \in DOMAIN referrals :
                      referrals[i].referred_id = regUser
                THEN "return"
                ELSE "update"
    /\ UNCHANGED <<referrals, credits, crWriter, crTxn, regCode, regUser,
                   regResult, regCalls, cmpPc, cmpUser, cmpRow, cmpCalls>>
    /\ CreditFrame

\* UPDATE referrals SET referred_id = ? WHERE code = ?, committed on exit
register_update ==
    /\ regPc = "update"
    /\ crWriter = NoThread
    /\ referrals' = [referrals EXCEPT ![regCode].referred_id = regUser]
    /\ regResult' = TRUE
    /\ regPc' = "return"
    /\ UNCHANGED <<credits, crWriter, crTxn, regCode, regUser, regCalls,
                   cmpPc, cmpUser, cmpRow, cmpCalls>>
    /\ CreditFrame

register_return ==
    /\ regPc = "return"
    /\ regPc' = "idle"
    /\ regCode' = 0
    /\ regUser' = "none"
    /\ regResult' = FALSE
    /\ UNCHANGED <<referrals, credits, crWriter, crTxn, regCalls, cmpPc,
                   cmpUser, cmpRow, cmpCalls>>
    /\ CreditFrame

\* admin route: db.complete_referral(user_id) for a confirmed appointment
complete_referral(t, u) ==
    /\ cmpPc[t] = "idle"
    /\ cmpCalls < MaxCompleteCalls
    /\ cmpCalls' = cmpCalls + 1
    /\ cmpPc' = [cmpPc EXCEPT ![t] = "select"]
    /\ cmpUser' = [cmpUser EXCEPT ![t] = u]
    /\ UNCHANGED <<referrals, credits, crWriter, crTxn, regPc, regCode,
                   regUser, regResult, regCalls, cmpRow>>
    /\ CreditFrame

\* SELECT * FROM referrals WHERE referred_id = ? AND status = 'pending'
\* (run before the connection has begun a transaction)
complete_select(t) ==
    /\ cmpPc[t] = "select"
    /\ LET pending == {i \in DOMAIN referrals :
                          /\ referrals[i].referred_id = cmpUser[t]
                          /\ referrals[i].status = "pending"}
       IN  IF pending = {}
           THEN /\ cmpPc' = [cmpPc EXCEPT ![t] = "return"]
                /\ UNCHANGED cmpRow
           ELSE /\ \E i \in pending : cmpRow' = [cmpRow EXCEPT ![t] = i]
                /\ cmpPc' = [cmpPc EXCEPT ![t] = "update"]
    /\ UNCHANGED <<referrals, credits, crWriter, crTxn, regPc, regCode,
                   regUser, regResult, regCalls, cmpUser, cmpCalls>>
    /\ CreditFrame

\* UPDATE referrals SET status = 'completed', completed_at = ... WHERE id = ?
\* (the first write: the connection begins its transaction and takes the
\* write lock)
complete_update(t) ==
    /\ cmpPc[t] = "update"
    /\ crWriter = NoThread
    /\ crWriter' = t
    /\ crTxn' = [referrals |->
                    [referrals EXCEPT ![cmpRow[t]].status = "completed",
                                      ![cmpRow[t]].completed_at = TRUE],
                 credits |-> credits]
    /\ cmpPc' = [cmpPc EXCEPT ![t] = "credit_referrer"]
    /\ UNCHANGED <<referrals, credits, regPc, regCode, regUser, regResult,
                   regCalls, cmpUser, cmpRow, cmpCalls>>
    /\ CreditFrame

\* INSERT INTO credits: the credit row of a user for a referral
Credit(u, type, row) ==
    [user_id |-> u, type |-> type, referral |-> row, expires_days |-> 60]

\* INSERT INTO credits ... (row["referrer_id"], 10.0, "referrer", ...)
complete_credit_referrer(t) ==
    /\ cmpPc[t] = "credit_referrer"
    /\ crTxn' = [crTxn EXCEPT !.credits =
                    Append(@, Credit(referrals[cmpRow[t]].referrer_id,
                                     "referrer", cmpRow[t]))]
    /\ cmpPc' = [cmpPc EXCEPT ![t] = "credit_referred"]
    /\ UNCHANGED <<referrals, credits, crWriter, regPc, regCode, regUser,
                   regResult, regCalls, cmpUser, cmpRow, cmpCalls>>
    /\ CreditFrame

\* INSERT INTO credits ... (referred_id, 10.0, "referred", ...)
complete_credit_referred(t) ==
    /\ cmpPc[t] = "credit_referred"
    /\ crTxn' = [crTxn EXCEPT !.credits =
                    Append(@, Credit(cmpUser[t], "referred", cmpRow[t]))]
    /\ cmpPc' = [cmpPc EXCEPT ![t] = "commit"]
    /\ UNCHANGED <<referrals, credits, crWriter, regPc, regCode, regUser,
                   regResult, regCalls, cmpUser, cmpRow, cmpCalls>>
    /\ CreditFrame

\* get_connection: conn.commit() when the with block is left
complete_commit(t) ==
    /\ cmpPc[t] = "commit"
    /\ referrals' = crTxn.referrals
    /\ credits' = crTxn.credits
    /\ crWriter' = NoThread
    /\ crTxn' = NoTxn
    /\ cmpPc' = [cmpPc EXCEPT ![t] = "return"]
    /\ UNCHANGED <<regPc, regCode, regUser, regResult, regCalls, cmpUser,
                   cmpRow, cmpCalls>>
    /\ CreditFrame

\* get_connection: conn.rollback() when a statement or the commit raises
complete_rollback(t) ==
    /\ cmpPc[t] \in {"credit_referrer", "credit_referred", "commit"}
    /\ crWriter' = NoThread
    /\ crTxn' = NoTxn
    /\ cmpPc' = [cmpPc EXCEPT ![t] = "return"]
    /\ UNCHANGED <<referrals, credits, regPc, regCode, regUser, regResult,
                   regCalls, cmpUser, cmpRow, cmpCalls>>
    /\ CreditFrame

complete_return(t) ==
    /\ cmpPc[t] = "return"
    /\ cmpPc' = [cmpPc EXCEPT ![t] = "idle"]
    /\ cmpUser' = [cmpUser EXCEPT ![t] = "none"]
    /\ cmpRow' = [cmpRow EXCEPT ![t] = 0]
    /\ UNCHANGED <<referrals, credits, crWriter, crTxn, regPc, regCode,
                   regUser, regResult, regCalls, cmpCalls>>
    /\ CreditFrame

(***************************************************************************)
(* Incremental embedding in rebuild_index                                  *)
(***************************************************************************)
\* the ids of the active entries, in the order get_all_kb_entries lists them
EntryOrder == <<1, 2, 3>>
EmbEntries == {EntryOrder[i] : i \in 1..Len(EntryOrder)}
MaxEdits == 2
MaxEmbedRebuilds == 2

\* contents by the pieces chunk_text() splits them into; <<>> is a blank
\* content
Contents == {<<>>, <<"a">>, <<"b">>, <<"a", "b">>}

\* a NULL or empty column kb_chunks.embedding, and the placeholder None
NoEmbedding == [text |-> "none", call |-> 0]

EmbedFrame == UNCHANGED nonEmbedVars

\* chunker.create_chunks_for_entry: one chunk per piece, numbered from 0,
\* its text the piece behind the entry's category and title
create_chunks_for_entry(entry_id, content) ==
    [i \in 1..Len(content) |->
        [entry_id |-> entry_id, index |-> i - 1,
         text |-> <<entry_id, content[i]>>]]

\* step 1 of rebuild_index: the chunks of every entry, in entry order
RECURSIVE chunks_from(_, _)
chunks_from(entries, n) ==
    IF n > Len(EntryOrder) THEN <<>>
    ELSE create_chunks_for_entry(EntryOrder[n], entries[EntryOrder[n]])
            \o chunks_from(entries, n + 1)

\* database.get_chunks_for_entries: the rows with an embedding, by entry,
\* in chunk_index order
get_chunks_for_entries(table) ==
    [e \in EmbEntries |->
        SelectSeq(table[e], LAMBDA r : r.embedding # NoEmbedding)]

\* the chunks of one entry among all_chunks
chunks_by_entry(chunks, eid) ==
    SelectSeq(chunks, LAMBDA c : c.entry_id = eid)

\* step 3 with lengths alone compared
entry_unchanged_by_length(new_chunks, old_chunks) ==
    Len(old_chunks) = Len(new_chunks)

\* step 3 of rebuild_index: new_texts == old_texts and equal lengths
entry_unchanged(new_chunks, old_chunks) ==
    /\ [i \in 1..Len(new_chunks) |-> new_chunks[i].text]
         = [i \in 1..Len(old_chunks) |-> old_chunks[i].chunk_text]
    /\ Len(old_chunks) = Len(new_chunks)

\* step 4 of rebuild_index, the loop over all_chunks from position i on:
\* a chunk of an unchanged entry takes the stored vector of its chunk_index;
\* without one the entry falls back to changed; every other chunk gets a
\* placeholder and its text is collected
RECURSIVE collect(_, _, _, _)
collect(chunks, stored, i, st) ==
    IF i > Len(chunks) THEN st
    ELSE LET chunk == chunks[i]
             eid == chunk.entry_id
             matching == SelectSeq(stored[eid],
                             LAMBDA c : c.chunk_index = chunk.index)
             reuse == /\ eid \in st.unchanged
                      /\ matching # <<>>
                      /\ matching[1].embedding # NoEmbedding
         IN  collect(chunks, stored, i + 1,
                IF reuse
                THEN [st EXCEPT
                        !.embeddings = Append(@, matching[1].embedding)]
                ELSE [unchanged |-> st.unchanged \ {eid},
                      changed |-> st.changed \cup {eid},
                      embeddings |-> Append(st.embeddings, NoEmbedding),
                      indices |-> Append(st.indices, i),
                      texts |-> Append(st.texts, chunk.text)])

\* embeddings.get_embeddings_batch: one vector per text, in order; a vector
\* is told by its text, by the call that computed it and by its length
embeddings_batch(texts, call) ==
    [j \in 1..Len(texts) |->
        [text |-> texts[j], call |-> call, dim |-> embedding_dim]]

\* position of idx in new_embed_indices
IndexPos(indices, idx) ==
    CHOOSE j \in 1..Len(indices) : indices[j] = idx

\* the rows save_chunks writes for an entry in step 6
entries_to_save(chunks, embeddings, eid) ==
    LET pos == SelectSeq([i \in 1..Len(chunks) |-> i],
                   LAMBDA i : chunks[i].entry_id = eid)
    IN  [k \in 1..Len(pos) |->
            [chunk_index |-> chunks[pos[k]].index,
             chunk_text |-> chunks[pos[k]].text,
             embedding |-> embeddings[pos[k]]]]

\* database.update_kb_entry from the admin panel: an entry gets a new content
update_kb_entry(e, content) ==
    /\ emEdits < MaxEdits
    /\ content # kb_entries[e]
    /\ kb_entries' = [kb_entries EXCEPT ![e] = content]
    /\ emEdits' = emEdits + 1
    /\ UNCHANGED <<kb_chunks, emPc, all_chunks, stored_chunks,
                   unchanged_entry_ids, changed_entry_ids,
                   new_embed_indices, new_embed_texts, all_embeddings,
                   embedder_input, emCalls>>
    /\ EmbedFrame

\* rebuild_index, steps 1 and 2: create the chunks, load the stored rows
rebuild_load ==
    /\ emPc = "idle"
    /\ emCalls < MaxEmbedRebuilds
    /\ emCalls' = emCalls + 1
    /\ all_chunks' = chunks_from(kb_entries, 1)
    /\ IF all_chunks' = <<>>
       THEN /\ emPc' = "idle"
            /\ UNCHANGED stored_chunks
       ELSE /\ emPc' = "classify"
            /\ stored_chunks' = get_chunks_for_entries(kb_chunks)
    /\ embedder_input' = <<>>
    /\ UNCHANGED <<kb_entries, kb_chunks, unchanged_entry_ids,
                   changed_entry_ids, new_embed_indices, new_embed_texts,
                   all_embeddings, emEdits>>
    /\ EmbedFrame

\* rebuild_index, step 3: classify every entry
rebuild_classify ==
    /\ emPc = "classify"
    /\ unchanged_entry_ids' =
          {e \in EmbEntries :
              entry_unchanged(chunks_by_entry(all_chunks, e),
                              stored_chunks[e])}
    /\ changed_entry_ids' = EmbEntries \ unchanged_entry_ids'
    /\ emPc' = "collect"
    /\ UNCHANGED <<kb_entries, kb_chunks, all_chunks, stored_chunks,
                   new_embed_indices, new_embed_texts, all_embeddings,
                   embedder_input, emCalls, emEdits>>
    /\ EmbedFrame

\* rebuild_index, step 4: reuse the stored vectors, collect the other texts
rebuild_collect ==
    /\ emPc = "collect"
    /\ LET st == collect(all_chunks, stored_chunks, 1,
                    [unchanged |-> unchanged_entry_ids,
                     changed |-> changed_entry_ids,
                     embeddings |-> <<>>, indices |-> <<>>,
                     texts |-> <<>>])
       IN  /\ unchanged_entry_ids' = st.unchanged
           /\ changed_entry_ids' = st.changed
           /\ all_embeddings' = st.embeddings
           /\ new_embed_indices' = st.indices
           /\ new_embed_texts' = st.texts
    /\ emPc' = "embed"
    /\ UNCHANGED <<kb_entries, kb_chunks, all_chunks, stored_chunks,
                   embedder_input, emCalls, emEdits>>
    /\ EmbedFrame

\* rebuild_index: get_embeddings_batch(new_embed_texts) when there is a text
get_embeddings_batch ==
    /\ emPc = "embed"
    /\ IF new_embed_texts # <<>>
       THEN LET new_embeddings == embeddings_batch(new_embed_texts, emCalls)
            IN  /\ embedder_input' = new_embed_texts
                /\ all_embeddings' =
                      [i \in 1..Len(all_embeddings) |->
                          IF \E j \in 1..Len(new_embed_indices) :
                                 new_embed_indices[j] = i
                          THEN new_embeddings[IndexPos(new_embed_indices, i)]
                          ELSE all_embeddings[i]]
       ELSE UNCHANGED <<embedder_input, all_embeddings>>
    /\ emPc' = "build"
    /\ UNCHANGED <<kb_entries, kb_chunks, all_chunks, stored_chunks,
                   unchanged_entry_ids, changed_entry_ids,
                   new_embed_indices, new_embed_texts, emCalls, emEdits>>
    /\ EmbedFrame

\* rebuild_index, step 5: the index is built and written; writing can raise
build_index_and_save ==
    /\ emPc = "build"
    /\ emPc' \in {"save", "idle"}
    /\ UNCHANGED <<kb_entries, kb_chunks, all_chunks, stored_chunks,
                   unchanged_entry_ids, changed_entry_ids,
                   new_embed_indices, new_embed_texts, all_embeddings,
                   embedder_input, emCalls, emEdits>>
    /\ EmbedFrame

\* a step 6 that writes no row
rebuild_save_nothing ==
    /\ emPc = "save"
    /\ emPc' = "idle"
    /\ UNCHANGED <<kb_entries, kb_chunks, all_chunks, stored_chunks,
                   unchanged_entry_ids, changed_entry_ids,
                   new_embed_indices, new_embed_texts, all_embeddings,
                   embedder_input, emCalls, emEdits>>
    /\ EmbedFrame

\* rebuild_index, step 6: save_chunks for the changed entries only
rebuild_save_chunks ==
    /\ emPc = "save"
    /\ kb_chunks' =
          [e \in EmbEntries |->
              IF e \in changed_entry_ids
                 /\ chunks_by_entry(all_chunks, e) # <<>>
              THEN entries_to_save(all_chunks, all_embeddings, e)
              ELSE kb_chunks[e]]
    /\ emPc' = "idle"
    /\ UNCHANGED <<kb_entries, all_chunks, stored_chunks,
                   unchanged_entry_ids, changed_entry_ids,
                   new_embed_indices, new_embed_texts, all_embeddings,
                   embedder_input, emCalls, emEdits>>
    /\ EmbedFrame

(***************************************************************************)
(* The vector store: build_index, search and the _store singleton          *)
(***************************************************************************)
MaxBuilds == 2
MaxSearches == 2

\* a VectorStore object is created by every get_vector_store() that finds
\* _store empty
MaxStores == 2 * (MaxBuilds + MaxSearches) + 1
Stores == 1..MaxStores
NoStore == 0

\* the admin route that rebuilds and the bot thread that answers
VsThreads == {"admin", "bot"}

\* the chunks of the knowledge base at the time of a rebuild; a vector and
\* a metadata item are told by the chunk they were made from
Corpora == {<<>>, <<"a">>, <<"b">>, <<"a", "b">>}

\* VectorStore.index = None, and no index directory on disk
NoIndex == <<"none">>
NoDisk == [index |-> NoIndex, metadata |-> <<>>]

StoreFrame == UNCHANGED nonStoreVars

\* index.ntotal
ntotal(index) == Len(index)

\* metadata item i describes vector i, for every position
Aligned(s) ==
    vsIndex[s] # NoIndex =>
        /\ Len(vsMeta[s]) = ntotal(vsIndex[s])
        /\ \A i \in 1..Len(vsMeta[s]) : vsMeta[s][i] = vsIndex[s][i]

\* engine.rebuild_index entered: by the admin route, or by retrieve() on an
\* empty store; _REBUILD_LOCK admits one thread; the entries are read
vs_rebuild_index(t, entries) ==
    /\ \/ t = "admin" /\ vsPc[t] = "idle"
       \/ t = "bot" /\ vsPc[t] = "rebuild"
    /\ vsLock = NoThread
    /\ vsBuilds < MaxBuilds
    /\ vsBuilds' = vsBuilds + 1
    /\ vsLock' = t
    /\ vsInput' = [vsInput EXCEPT ![t] = entries]
    /\ IF entries = <<>>
       THEN /\ vsPc' = [vsPc EXCEPT ![t] = "get"]
            /\ vsRet' = [vsRet EXCEPT ![t] = "build_empty_index"]
       ELSE /\ vsPc' = [vsPc EXCEPT ![t] = "reset"]
            /\ UNCHANGED vsRet
    /\ UNCHANGED <<_store, vsIndex, vsMeta, vsDisk, vsNext, vsInst, vsHits,
                   vsResult, vsSearches>>
    /\ StoreFrame

\* vector_store.reset_vector_store
reset_vector_store(t) ==
    /\ vsPc[t] = "reset"
    /\ _store' = NoStore
    /\ vsPc' = [vsPc EXCEPT ![t] = "get"]
    /\ vsRet' = [vsRet EXCEPT ![t] = "build_metadata"]
    /\ UNCHANGED <<vsIndex, vsMeta, vsDisk, vsNext, vsInst, vsHits, vsResult,
                   vsSearches, vsBuilds, vsLock, vsInput>>
    /\ StoreFrame

\* get_vector_store: the test of _store
get_vector_store(t) ==
    /\ vsPc[t] = "get"
    /\ vsPc' = [vsPc EXCEPT ![t] =
                   IF _store = NoStore THEN "create" ELSE "get_return"]
    /\ UNCHANGED <<_store, vsIndex, vsMeta, vsDisk, vsNext, vsInst, vsRet,
                   vsHits, vsResult, vsSearches, vsBuilds, vsLock, vsInput>>
    /\ StoreFrame

\* get_vector_store: _store = VectorStore()
store_create(t) ==
    /\ vsPc[t] = "create"
    /\ vsNext \in Stores
    /\ _store' = vsNext
    /\ vsNext' = vsNext + 1
    /\ vsIndex' = [vsIndex EXCEPT ![vsNext] = NoIndex]
    /\ vsMeta' = [vsMeta EXCEPT ![vsNext] = <<>>]
    /\ vsPc' = [vsPc EXCEPT ![t] = "load"]
    /\ UNCHANGED <<vsDisk, vsInst, vsRet, vsHits, vsResult, vsSearches,
                   vsBuilds, vsLock, vsInput>>
    /\ StoreFrame

\* get_vector_store: _store.load(), up to read_index; _store is read again,
\* and a reset in between leaves nothing to call load() on
store_load(t) ==
    /\ vsPc[t] = "load"
    /\ IF _store = NoStore
       THEN /\ vsPc' = [vsPc EXCEPT ![t] = "raised"]
            /\ UNCHANGED <<vsIndex, vsInst>>
       ELSE IF vsDisk = NoDisk
       THEN /\ vsPc' = [vsPc EXCEPT ![t] = "get_return"]
            /\ UNCHANGED <<vsIndex, vsInst>>
       ELSE /\ vsIndex' = [vsIndex EXCEPT ![_store] = vsDisk.index]
            /\ vsInst' = [vsInst EXCEPT ![t] = _store]
            /\ vsPc' = [vsPc EXCEPT ![t] = "load_metadata"]
    /\ UNCHANGED <<_store, vsMeta, vsDisk, vsNext, vsRet, vsHits, vsResult,
                   vsSearches, vsBuilds, vsLock, vsInput>>
    /\ StoreFrame

\* VectorStore.load: self.metadata = json.load(f)
store_load_metadata(t) ==
    /\ vsPc[t] = "load_metadata"
    /\ vsMeta' = [vsMeta EXCEPT ![vsInst[t]] = vsDisk.metadata]
    /\ vsPc' = [vsPc EXCEPT ![t] = "get_return"]
    /\ UNCHANGED <<_store, vsIndex, vsDisk, vsNext, vsInst, vsRet, vsHits,
                   vsResult, vsSearches, vsBuilds, vsLock, vsInput>>
    /\ StoreFrame

\* get_vector_store: return _store
get_vector_store_return(t) ==
    /\ vsPc[t] = "get_return"
    /\ vsInst' = [vsInst EXCEPT ![t] = _store]
    /\ vsPc' = [vsPc EXCEPT ![t] =
                   IF _store = NoStore THEN "raised" ELSE vsRet[t]]
    /\ UNCHANGED <<_store, vsIndex, vsMeta, vsDisk, vsNext, vsRet, vsHits,
                   vsResult, vsSearches, vsBuilds, vsLock, vsInput>>
    /\ StoreFrame

\* VectorStore.build_index: self.metadata = metadata
build_index_metadata(t) ==
    /\ vsPc[t] = "build_metadata"
    /\ vsMeta' = [vsMeta EXCEPT ![vsInst[t]] = vsInput[t]]
    /\ vsPc' = [vsPc EXCEPT ![t] = "build_index"]
    /\ UNCHANGED <<_store, vsIndex, vsDisk, vsNext, vsInst, vsRet, vsHits,
                   vsResult, vsSearches, vsBuilds, vsLock, vsInput>>
    /\ StoreFrame

\* VectorStore.build_index: self.index = faiss.IndexFlatIP(dimension)
build_index_new(t) ==
    /\ vsPc[t] = "build_index"
    /\ vsIndex' = [vsIndex EXCEPT ![vsInst[t]] = <<>>]
    /\ vsPc' = [vsPc EXCEPT ![t] = "build_add"]
    /\ UNCHANGED <<_store, vsMeta, vsDisk, vsNext, vsInst, vsRet, vsHits,
                   vsResult, vsSearches, vsBuilds, vsLock, vsInput>>
    /\ StoreFrame

\* VectorStore.build_index: self.index.add(embeddings)
build_index_add(t) ==
    /\ vsPc[t] = "build_add"
    /\ vsIndex' = [vsIndex EXCEPT ![vsInst[t]] = vsInput[t]]
    /\ vsPc' = [vsPc EXCEPT ![t] = "save"]
    /\ UNCHANGED <<_store, vsMeta, vsDisk, vsNext, vsInst, vsRet, vsHits,
                   vsResult, vsSearches, vsBuilds, vsLock, vsInput>>
    /\ StoreFrame

\* VectorStore.build_index without embeddings: self.index = an empty index
build_empty_index(t) ==
    /\ vsPc[t] = "build_empty_index"
    /\ vsIndex' = [vsIndex EXCEPT ![vsInst[t]] = <<>>]
    /\ vsPc' = [vsPc EXCEPT ![t] = "build_empty_metadata"]
    /\ UNCHANGED <<_store, vsMeta, vsDisk, vsNext, vsInst, vsRet, vsHits,
                   vsResult, vsSearches, vsBuilds, vsLock, vsInput>>
    /\ StoreFrame

\* VectorStore.build_index without embeddings: self.metadata = []
build_empty_metadata(t) ==
    /\ vsPc[t] = "build_empty_metadata"
    /\ vsMeta' = [vsMeta EXCEPT ![vsInst[t]] = <<>>]
    /\ vsPc' = [vsPc EXCEPT ![t] = "save"]
    /\ UNCHANGED <<_store, vsIndex, vsDisk, vsNext, vsInst, vsRet, vsHits,
                   vsResult, vsSearches, vsBuilds, vsLock, vsInput>>
    /\ StoreFrame

\* VectorStore.save: index.faiss and metadata.json are written
store_save(t) ==
    /\ vsPc[t] = "save"
    /\ vsDisk' = [index |-> vsIndex[vsInst[t]],
                  metadata |-> vsMeta[vsInst[t]]]
    /\ vsPc' = [vsPc EXCEPT ![t] = "built"]
    /\ UNCHANGED <<_store, vsIndex, vsMeta, vsNext, vsInst, vsRet, vsHits,
                   vsResult, vsSearches, vsBuilds, vsLock, vsInput>>
    /\ StoreFrame

\* rebuild_index returns and leaves _REBUILD_LOCK; retrieve() goes on to
\* its second get_vector_store()
vs_rebuild_return(t) ==
    /\ vsPc[t] = "built"
    /\ vsLock' = NoThread
    /\ IF t = "bot"
       THEN /\ vsPc' = [vsPc EXCEPT ![t] = "get"]
            /\ vsRet' = [vsRet EXCEPT ![t] = "retrieve_check2"]
       ELSE /\ vsPc' = [vsPc EXCEPT ![t] = "idle"]
            /\ UNCHANGED vsRet
    /\ UNCHANGED <<_store, vsIndex, vsMeta, vsDisk, vsNext, vsInst, vsHits,
                   vsResult, vsSearches, vsBuilds, vsInput>>
    /\ StoreFrame

\* engine.retrieve past its staleness test: store = get_vector_store()
vs_retrieve(t) ==
    /\ t = "bot"
    /\ vsPc[t] = "idle"
    /\ vsSearches < MaxSearches
    /\ vsSearches' = vsSearches + 1
    /\ vsPc' = [vsPc EXCEPT ![t] = "get"]
    /\ vsRet' = [vsRet EXCEPT ![t] = "retrieve_check"]
    /\ vsHits' = <<>>
    /\ vsResult' = <<>>
    /\ UNCHANGED <<_store, vsIndex, vsMeta, vsDisk, vsNext, vsInst, vsBuilds,
                   vsLock, vsInput>>
    /\ StoreFrame

\* engine.retrieve: an empty store is rebuilt first; after that rebuild an
\* empty store ends the call with no result
vs_retrieve_check(t) ==
    /\ vsPc[t] \in {"retrieve_check", "retrieve_check2"}
    /\ LET index == vsIndex[vsInst[t]]
       IN  vsPc' = [vsPc EXCEPT ![t] =
                      IF index # NoIndex /\ ntotal(index) # 0 THEN "search"
                      ELSE IF vsPc[t] = "retrieve_check"
                              /\ vsBuilds < MaxBuilds
                      THEN "rebuild"
                      ELSE "idle"]
    /\ UNCHANGED <<_store, vsIndex, vsMeta, vsDisk, vsNext, vsInst, vsRet,
                   vsHits, vsResult, vsSearches, vsBuilds, vsLock, vsInput>>
    /\ StoreFrame

\* VectorStore.search: the test of self.index and self.index.ntotal
search(t) ==
    /\ vsPc[t] = "search"
    /\ LET index == vsIndex[vsInst[t]]
       IN  vsPc' = [vsPc EXCEPT ![t] =
                      IF index = NoIndex \/ ntotal(index) = 0
                      THEN "idle" ELSE "search_index"]
    /\ UNCHANGED <<_store, vsIndex, vsMeta, vsDisk, vsNext, vsInst, vsRet,
                   vsHits, vsResult, vsSearches, vsBuilds, vsLock, vsInput>>
    /\ StoreFrame

\* VectorStore.search: self.index.search(query, k); every vector is a hit
search_index(t) ==
    /\ vsPc[t] = "search_index"
    /\ vsHits' = IF vsIndex[vsInst[t]] = NoIndex THEN <<>>
                 ELSE vsIndex[vsInst[t]]
    /\ vsPc' = [vsPc EXCEPT ![t] = "search_metadata"]
    /\ UNCHANGED <<_store, vsIndex, vsMeta, vsDisk, vsNext, vsInst, vsRet,
                   vsResult, vsSearches, vsBuilds, vsLock, vsInput>>
    /\ StoreFrame

\* VectorStore.search: self.metadata[idx] for every hit; a position past
\* the end of the list raises IndexError
search_metadata(t) ==
    /\ vsPc[t] = "search_metadata"
    /\ LET metadata == vsMeta[vsInst[t]]
       IN  vsResult' = IF Len(vsHits) > Len(metadata) THEN <<"IndexError">>
                       ELSE [i \in 1..Len(vsHits) |-> metadata[i]]
    /\ vsPc' = [vsPc EXCEPT ![t] = "idle"]
    /\ UNCHANGED <<_store, vsIndex, vsMeta, vsDisk, vsNext, vsInst, vsRet,
                   vsHits, vsSearches, vsBuilds, vsLock, vsInput>>
    /\ StoreFrame

\* the exception of a get_vector_store() that lost _store reaches the
\* caller, which leaves _REBUILD_LOCK
vs_raised(t) ==
    /\ vsPc[t] = "raised"
    /\ vsPc' = [vsPc EXCEPT ![t] = "idle"]
    /\ vsLock' = IF vsLock = t THEN NoThread ELSE vsLock
    /\ UNCHANGED <<_store, vsIndex, vsMeta, vsDisk, vsNext, vsInst, vsRet,
                   vsHits, vsResult, vsSearches, vsBuilds, vsInput>>
    /\ StoreFrame

(***************************************************************************)
(* Handlers of the bot: what is saved and what is sent, in which order     *)
(***************************************************************************)
MaxUpdates == 2

\* the handlers followed: /start, /help, the price-list button, the booking
\* button, a text answered directly (greeting, farewell, business hours,
\* booking or cancellation intent) and a text answered by _handle_rag_query
Handlers == {"start", "help", "price", "booking", "direct", "rag"}

\* a text is the sequence of its lines; the lines told apart are a line of
\* content, a line the citation pattern matches, the handoff phrase of the
\* system prompt and the first sentence of the fallback
CitationLine == "Source: kb"
HandoffPhrase == "transfer to a human agent"

\* config.FALLBACK_RESPONSE: it contains the handoff phrase
FALLBACK_RESPONSE == <<"no information", HandoffPhrase>>

\* what the chat completion returns; "error" is an exception of the API call
RawAnswers ==
    {<<"answer">>, <<"answer", CitationLine>>, <<CitationLine>>,
     <<HandoffPhrase, CitationLine>>, <<"answer", CitationLine, "more">>}
NoAnswer == <<>>

\* re.search(SOURCE_CITATION_PATTERN, text)
HasCitation(text) == \E i \in 1..Len(text) : text[i] = CitationLine

\* llm._quality_check
_quality_check(response_text) ==
    IF HasCitation(response_text) THEN response_text ELSE FALLBACK_RESPONSE

\* llm.strip_source_citation: every match of the pattern is removed
strip_source_citation(response_text) ==
    SelectSeq(response_text, LAMBDA line : line # CitationLine)

\* handlers._should_handoff_to_human
_should_handoff_to_human(text) ==
    /\ text # <<>>
    /\ \/ text = FALLBACK_RESPONSE
       \/ \E i \in 1..Len(text) : text[i] = HandoffPhrase

\* a row of the update `ref` with this role is in conversations
Persisted(rows, role, ref) ==
    \E i \in 1..Len(rows) : rows[i].role = role /\ rows[i].ref = ref

\* a message sent to the customer, with what was persisted at that moment
Reply(kind, text) ==
    [update |-> rpUpdates, handler |-> rpHandler, kind |-> kind,
     text |-> text, raw |-> rpRaw,
     user_saved |-> Persisted(conversations, "user", rpUpdates),
     assistant_saved |-> Persisted(conversations, "assistant", rpUpdates)]

ReplyFrame == UNCHANGED nonReplyVars

\* an update reaches its handler (the guards let it through)
receive_update(h) ==
    /\ rpPc = "idle"
    /\ rpUpdates < MaxUpdates
    /\ rpUpdates' = rpUpdates + 1
    /\ rpHandler' = h
    /\ rpPc' = CASE h \in {"start", "help"} -> "reply"
                 [] h = "price" -> "wait"
                 [] h = "direct" -> "save"
                 [] OTHER -> "save_user"
    /\ rpRaw' = NoAnswer
    /\ rpAnswer' = NoAnswer
    /\ UNCHANGED <<conversations, rpSent, rpRequests, rpNotified>>
    /\ ReplyFrame

\* start_command: reply_text(welcome_text)
start_command ==
    /\ rpHandler = "start" /\ rpPc = "reply"
    /\ rpSent' = rpSent \cup {Reply("fixed", <<"welcome">>)}
    /\ rpPc' = "log"
    /\ UNCHANGED <<conversations, rpHandler, rpRaw, rpAnswer, rpUpdates,
                   rpRequests, rpNotified>>
    /\ ReplyFrame

\* start_command: the two save_message calls after the reply
start_command_log ==
    /\ rpHandler = "start" /\ rpPc = "log"
    /\ conversations' =
          save_message(
              save_message(conversations, "u1", "user", <<"/start">>,
                           rpUpdates),
              "u1", "assistant", <<"[Welcome message sent]">>, rpUpdates)
    /\ rpPc' = "idle"
    /\ UNCHANGED <<rpHandler, rpRaw, rpAnswer, rpSent, rpUpdates, rpRequests, rpNotified>>
    /\ ReplyFrame

\* help_command: reply_text(help_text), nothing is saved
help_command ==
    /\ rpHandler = "help" /\ rpPc = "reply"
    /\ rpSent' = rpSent \cup {Reply("fixed", <<"help">>)}
    /\ rpPc' = "idle"
    /\ UNCHANGED <<conversations, rpHandler, rpRaw, rpAnswer, rpUpdates,
                   rpRequests, rpNotified>>
    /\ ReplyFrame

\* price_list_handler: the "one moment" reply before the pipeline runs
price_list_wait ==
    /\ rpHandler = "price" /\ rpPc = "wait"
    /\ rpSent' = rpSent \cup {Reply("fixed", <<"one moment">>)}
    /\ rpPc' = "generate"
    /\ UNCHANGED <<conversations, rpHandler, rpRaw, rpAnswer, rpUpdates,
                   rpRequests, rpNotified>>
    /\ ReplyFrame

\* db.save_message(user_id, display_name, "user", ...) of price_list_handler,
\* booking_start and _handle_rag_query
save_user_message ==
    /\ rpHandler \in {"price", "booking", "rag"} /\ rpPc = "save_user"
    /\ conversations' =
          save_message(conversations, "u1", "user", <<"question">>, rpUpdates)
    /\ rpPc' = IF rpHandler = "price" THEN "decide" ELSE "generate"
    /\ UNCHANGED <<rpHandler, rpRaw, rpAnswer, rpSent, rpUpdates, rpRequests, rpNotified>>
    /\ ReplyFrame

\* llm.generate_answer: the completion, or the fallback when the API call
\* raises; then the quality check
generate_answer ==
    /\ rpHandler \in {"price", "booking", "rag"} /\ rpPc = "generate"
    /\ \E raw \in RawAnswers \cup {<<"error">>} :
          /\ rpRaw' = raw
          /\ rpAnswer' = IF raw = <<"error">> THEN FALLBACK_RESPONSE
                         ELSE _quality_check(raw)
    /\ rpPc' = IF rpHandler = "price" THEN "save_user" ELSE "decide"
    /\ UNCHANGED <<conversations, rpHandler, rpSent, rpUpdates, rpRequests, rpNotified>>
    /\ ReplyFrame

\* stripped = strip_source_citation(result["answer"]);
\* if _should_handoff_to_human(stripped): _handoff_to_human(...)
handoff_decision ==
    /\ rpHandler \in {"price", "booking", "rag"} /\ rpPc = "decide"
    /\ rpPc' = IF _should_handoff_to_human(strip_source_citation(rpAnswer))
               THEN "handoff_request"
               ELSE IF rpHandler = "booking" THEN "reply" ELSE "save"
    /\ UNCHANGED <<conversations, rpHandler, rpRaw, rpAnswer, rpSent,
                   rpUpdates, rpRequests, rpNotified>>
    /\ ReplyFrame

\* db.save_message(..., "assistant", result["answer"], sources) of
\* price_list_handler and _handle_rag_query
save_answer ==
    /\ rpHandler \in {"price", "rag"} /\ rpPc = "save"
    /\ conversations' =
          save_message(conversations, "u1", "assistant", rpAnswer, rpUpdates)
    /\ rpPc' = "reply"
    /\ UNCHANGED <<rpHandler, rpRaw, rpAnswer, rpSent, rpUpdates, rpRequests, rpNotified>>
    /\ ReplyFrame

\* _reply_markdown_safe(update.message, stripped, ...); Telegram rejects an
\* empty text, with and without Markdown
reply_answer ==
    /\ rpHandler \in {"price", "rag"} /\ rpPc = "reply"
    /\ LET stripped == strip_source_citation(rpAnswer)
       IN  rpSent' = IF stripped = <<>> THEN rpSent
                     ELSE rpSent \cup {Reply("llm", stripped)}
    /\ rpPc' = "idle"
    /\ UNCHANGED <<conversations, rpHandler, rpRaw, rpAnswer, rpUpdates,
                   rpRequests, rpNotified>>
    /\ ReplyFrame

\* booking_start: the list of services inside the booking prompt; no
\* assistant row is saved
booking_start_reply ==
    /\ rpHandler = "booking" /\ rpPc = "reply"
    /\ rpSent' = rpSent \cup
          {Reply("llm", <<"booking request">>
                           \o strip_source_citation(rpAnswer)
                           \o <<"which service">>)}
    /\ rpPc' = "idle"
    /\ UNCHANGED <<conversations, rpHandler, rpRaw, rpAnswer, rpUpdates,
                   rpRequests, rpNotified>>
    /\ ReplyFrame

\* message_handler, an intent answered directly: both rows are saved
direct_save ==
    /\ rpHandler = "direct" /\ rpPc = "save"
    /\ conversations' =
          save_message(
              save_message(conversations, "u1", "user", <<"hello">>,
                           rpUpdates),
              "u1", "assistant", <<"direct response">>, rpUpdates)
    /\ rpPc' = "reply"
    /\ UNCHANGED <<rpHandler, rpRaw, rpAnswer, rpSent, rpUpdates, rpRequests, rpNotified>>
    /\ ReplyFrame

\* message_handler, an intent answered directly: reply_text(response)
direct_reply ==
    /\ rpHandler = "direct" /\ rpPc = "reply"
    /\ rpSent' = rpSent \cup {Reply("fixed", <<"direct response">>)}
    /\ rpPc' = "idle"
    /\ UNCHANGED <<conversations, rpHandler, rpRaw, rpAnswer, rpUpdates,
                   rpRequests, rpNotified>>
    /\ ReplyFrame

\* _handoff_to_human: _create_request_and_notify_owner; the deployment
\* has TELEGRAM_OWNER_CHAT_ID set
handoff_request ==
    /\ rpPc = "handoff_request"
    /\ rpRequests' = rpRequests + 1
    /\ rpNotified' = rpNotified + 1
    /\ rpPc' = "handoff_save"
    /\ UNCHANGED <<conversations, rpHandler, rpRaw, rpAnswer, rpSent,
                   rpUpdates>>
    /\ ReplyFrame

\* C32 mutant: the answer of the model is saved as the assistant row
handoff_save_answer ==
    /\ rpPc = "handoff_save"
    /\ conversations' =
          save_message(conversations, "u1", "assistant", rpAnswer, rpUpdates)
    /\ rpPc' = "handoff_reply"
    /\ UNCHANGED <<rpHandler, rpRaw, rpAnswer, rpSent, rpUpdates, rpRequests, rpNotified>>
    /\ ReplyFrame

\* _handoff_to_human: db.save_message(..., "assistant", FALLBACK_RESPONSE)
handoff_save ==
    /\ rpPc = "handoff_save"
    /\ conversations' =
          save_message(conversations, "u1", "assistant", FALLBACK_RESPONSE,
                       rpUpdates)
    /\ rpPc' = "handoff_reply"
    /\ UNCHANGED <<rpHandler, rpRaw, rpAnswer, rpSent, rpUpdates, rpRequests, rpNotified>>
    /\ ReplyFrame

\* _handoff_to_human: reply_text(FALLBACK_RESPONSE)
handoff_reply ==
    /\ rpPc = "handoff_reply"
    /\ rpSent' = rpSent \cup {Reply("fallback", FALLBACK_RESPONSE)}
    /\ rpPc' = "idle"
    /\ UNCHANGED <<conversations, rpHandler, rpRaw, rpAnswer, rpUpdates,
                   rpRequests, rpNotified>>
    /\ ReplyFrame

(***************************************************************************)
(* Rate limiter (src/rate_limiter.py)                                      *)
(***************************************************************************)
\* number of updates that reach the rate-limit guard in one run
MaxChecks == 5
\* number of times the clock is seen to advance in one run
MaxTicks == 4

\* src/config.py: int(os.getenv("RATE_LIMIT_PER_MINUTE", ...)) and its two
\* companions; the deployment modelled here sets them to 2, 3 and 4
RATE_LIMIT_PER_MINUTE == 2
RATE_LIMIT_PER_HOUR == 3
RATE_LIMIT_PER_DAY == 4

\* (window_seconds, max_messages, response_message)
_WINDOWS ==
    <<[window_seconds |-> 60, max_messages |-> RATE_LIMIT_PER_MINUTE,
       message |-> "minute"],
      [window_seconds |-> 3600, max_messages |-> RATE_LIMIT_PER_HOUR,
       message |-> "hour"],
      [window_seconds |-> 86400, max_messages |-> RATE_LIMIT_PER_DAY,
       message |-> "day"]>>

\* seconds by which time.time() is seen to advance between two readings
ClockSteps == {1, 59, 3600, 86400}

RateFrame == UNCHANGED nonRateVars

\* _prune: while timestamps and timestamps[0] < cutoff: timestamps.popleft()
RECURSIVE _prune(_, _)
_prune(timestamps, t) ==
    IF timestamps # <<>> /\ Head(timestamps) < t - 86400
    THEN _prune(Tail(timestamps), t)
    ELSE timestamps

\* sum(1 for ts in timestamps if ts >= cutoff)
window_count(timestamps, cutoff) ==
    Cardinality({i \in 1..Len(timestamps) : timestamps[i] >= cutoff})

\* a test that lets the message at the cap through
limit_hit_above(count, max_messages) == count > max_messages

\* if count >= max_messages: return message
limit_hit(count, max_messages) == count >= max_messages

\* the for loop of check_rate_limit over _WINDOWS, from window i on
RECURSIVE first_limit(_, _, _)
first_limit(timestamps, t, i) ==
    IF i > Len(_WINDOWS) THEN "None"
    ELSE IF limit_hit(window_count(timestamps, t - _WINDOWS[i].window_seconds),
                      _WINDOWS[i].max_messages)
         THEN _WINDOWS[i].message
         ELSE first_limit(timestamps, t, i + 1)

\* time.time() returns a later value
clock_advance(d) ==
    /\ rlTicks < MaxTicks
    /\ rlTicks' = rlTicks + 1
    /\ now' = now + d
    /\ UNCHANGED <<_user_timestamps, rlPc, rlResult, rlNow, rlRecorded,
                   rlChecks, rlReplies, rlLive, rlHandled>>
    /\ RateFrame

\* rate_limit_guard: `if LiveChatService.is_active(user_id): return await
\* handler(update, context)`
live_chat_bypass ==
    /\ rlPc = "idle"
    /\ rlChecks < MaxChecks
    /\ rlChecks' = rlChecks + 1
    /\ rlLive' = TRUE
    /\ rlHandled' = rlHandled + 1
    /\ UNCHANGED <<_user_timestamps, now, rlPc, rlResult, rlNow, rlRecorded,
                   rlTicks, rlReplies>>
    /\ RateFrame

\* rate_limit_guard without a live chat: limit_msg =
\* check_rate_limit(user_id), which prunes the deque of the user and tests
\* the windows in the order of _WINDOWS
check_rate_limit ==
    /\ rlPc = "idle"
    /\ rlChecks < MaxChecks
    /\ rlChecks' = rlChecks + 1
    /\ rlLive' = FALSE
    /\ rlNow' = now
    /\ _user_timestamps' = _prune(_user_timestamps, now)
    /\ rlResult' = first_limit(_prune(_user_timestamps, now), now, 1)
    /\ rlPc' = "checked"
    /\ UNCHANGED <<now, rlRecorded, rlTicks, rlReplies, rlHandled>>
    /\ RateFrame

\* C35 mutant: the blocked message is recorded too
limit_reply_records ==
    /\ rlPc = "checked"
    /\ rlResult # "None"
    /\ rlReplies' = Append(rlReplies, rlResult)
    /\ _user_timestamps' = Append(_user_timestamps, now)
    /\ rlRecorded' = Append(rlRecorded, now)
    /\ rlPc' = "idle"
    /\ UNCHANGED <<now, rlResult, rlNow, rlChecks, rlTicks, rlLive, rlHandled>>
    /\ RateFrame

\* rate_limit_guard: `if limit_msg is not None:` reply_text(limit_msg) and
\* return without calling the handler
limit_reply ==
    /\ rlPc = "checked"
    /\ rlResult # "None"
    /\ rlReplies' = Append(rlReplies, rlResult)
    /\ rlPc' = "idle"
    /\ UNCHANGED <<_user_timestamps, now, rlResult, rlNow, rlRecorded,
                   rlChecks, rlTicks, rlLive, rlHandled>>
    /\ RateFrame

\* rate_limit_guard: record_message(user_id), then the handler is called
record_message ==
    /\ rlPc = "checked"
    /\ rlResult = "None"
    /\ _user_timestamps' = Append(_user_timestamps, now)
    /\ rlRecorded' = Append(rlRecorded, now)
    /\ rlHandled' = rlHandled + 1
    /\ rlPc' = "idle"
    /\ UNCHANGED <<now, rlResult, rlNow, rlChecks, rlTicks, rlReplies, rlLive>>
    /\ RateFrame

(***************************************************************************)
(* Intent detection (src/intent.py)                                        *)
(***************************************************************************)
\* number of words of a message
MaxWords == 4
\* number of messages classified in one run
MaxDetects == 1

\* a message is the sequence of its words; the words told apart are one
\* salutation, one word of thanks, and the keywords of the booking, the
\* cancellation and the pricing patterns
Words == {"hi", "thanks", "how", "much", "to", "book", "cancel", "appointment"}

RECURSIVE SeqsUpTo(_, _)
SeqsUpTo(S, n) ==
    IF n = 0 THEN {<<>>}
    ELSE LET shorter == SeqsUpTo(S, n - 1)
         IN  shorter \cup {Append(s, w) : s \in shorter, w \in S}

Messages == SeqsUpTo(Words, MaxWords)

\* pattern.search(text) for a pattern that is a run of keywords separated
\* by \s*: the run occurs somewhere in the text
Contains(text, run) ==
    \E i \in 1..(Len(text) - Len(run) + 1) :
        SubSeq(text, i, i + Len(run) - 1) = run

\* pattern.search(text) for a pattern anchored by ^ and $: the whole text
Whole(text, run) == text = run

\* _INTENT_PATTERNS, in the order of the list
_INTENT_PATTERNS ==
    <<[intent |-> "GREETING", anchored |-> TRUE, run |-> <<"hi">>],
      [intent |-> "FAREWELL", anchored |-> TRUE, run |-> <<"thanks">>],
      [intent |-> "APPOINTMENT_BOOKING", anchored |-> FALSE,
       run |-> <<"book", "appointment">>],
      [intent |-> "APPOINTMENT_CANCEL", anchored |-> FALSE,
       run |-> <<"cancel", "appointment">>],
      [intent |-> "PRICING", anchored |-> FALSE, run |-> <<"how", "much">>]>>

pattern_search(p, text) ==
    IF p.anchored THEN Whole(text, p.run) ELSE Contains(text, p.run)

\* the for loop of detect_intent, from pattern i on
RECURSIVE first_intent(_, _)
first_intent(text, i) ==
    IF i > Len(_INTENT_PATTERNS) THEN "GENERAL"
    ELSE IF pattern_search(_INTENT_PATTERNS[i], text)
         THEN _INTENT_PATTERNS[i].intent
         ELSE first_intent(text, i + 1)

IntentFrame == UNCHANGED nonIntentVars

\* detect_intent(message)
detect_intent(message) ==
    /\ inCalls < MaxDetects
    /\ inCalls' = inCalls + 1
    /\ inMessage' = message
    /\ inIntent' = IF message = <<>> THEN "GENERAL"
                   ELSE first_intent(message, 1)
    /\ IntentFrame

(***************************************************************************)
(* Appointment booking conversation (src/bot/handlers.py,                  *)
(* src/bot/telegram_bot.py)                                                *)
(***************************************************************************)
MaxBookUpdates == 6

\* states of the ConversationHandler; END is "no conversation" (IDLE)
BOOKING_SERVICE == "BOOKING_SERVICE"
BOOKING_DATE == "BOOKING_DATE"
BOOKING_TIME == "BOOKING_TIME"
BOOKING_CONFIRM == "BOOKING_CONFIRM"
END == "END"

BUTTON_BOOKING == "BUTTON_BOOKING"
ALL_BUTTON_TEXTS == {"BUTTON_PRICE_LIST", BUTTON_BOOKING, "BUTTON_LOCATION",
                     "BUTTON_SAVE_CONTACT", "BUTTON_AGENT"}
BookCommands == {"/book", "/cancel", "/start"}
\* texts that are neither a command nor a menu button
FreeTexts == {" Haircut", "monday", "yes", " YES ", "no"}
BookTexts == ALL_BUTTON_TEXTS \cup BookCommands \cup FreeTexts

\* update.message.text.lower().strip()
lower_strip(text) ==
    CASE text = " Haircut" -> "haircut"
      [] text = " YES " -> "yes"
      [] OTHER -> text

\* the answers booking_confirm accepts (the two Hebrew words transliterated)
Affirmative == {"yes", "y", "confirm", "ken", "ishur"}

\* context.user_data: a dict, here a function on the keys that are present
EmptyData == [k \in {} |-> ""]
\* context.user_data[key] = value
Put(data, key, value) ==
    [k \in DOMAIN data \cup {key} |-> IF k = key THEN value ELSE data[k]]
\* context.user_data.get(key, "")
Get(data, key) == IF key \in DOMAIN data THEN data[key] ELSE ""

\* the row db.create_appointment inserts
create_appointment(service, preferred_date, preferred_time) ==
    [service |-> service, preferred_date |-> preferred_date,
     preferred_time |-> preferred_time, status |-> "pending"]

BookFrame == UNCHANGED nonBookVars

\* a handler or a guard ends the conversation after context.user_data.clear()
ClearAndEnd(effects) ==
    /\ user_data' = EmptyData
    /\ bkState' = END
    /\ bkTrail' = <<>>
    /\ bkEffects' = effects
    /\ UNCHANGED appointments

\* vacation_guard_booking: the vacation message, no handler
vacation_guard_booking(vacation, handler) ==
    IF vacation THEN ClearAndEnd({"vacation_message"}) ELSE handler

\* rate_limit_guard_booking: bypassed while a live chat is active
rate_limit_guard_booking(live, limited, handler) ==
    IF live
    THEN handler
    ELSE IF limited
         THEN ClearAndEnd({"limit_message"})
         ELSE handler

\* C21 mutant: the live chat guard ends the conversation and keeps the fields
live_chat_guard_booking_keeps_fields(live, handler) ==
    IF live
    THEN /\ bkState' = END
         /\ bkTrail' = <<>>
         /\ bkEffects' = {"live_chat_takeover"}
         /\ UNCHANGED <<user_data, appointments>>
    ELSE handler

\* live_chat_guard_booking: the message is saved for the agent, no handler
live_chat_guard_booking(live, handler) ==
    IF live THEN ClearAndEnd({"live_chat_takeover"}) ELSE handler

\* body of booking_start, run with the user_data it finds
booking_start_body(handoff, data) ==
    /\ user_data' = data
    /\ bkTrail' = <<>>
    /\ UNCHANGED appointments
    /\ IF handoff
       THEN /\ bkState' = END
            /\ bkEffects' = {"save_message_user", "_handoff_to_human"}
       ELSE /\ bkState' = BOOKING_SERVICE
            /\ bkEffects' = {"save_message_user", "reply_services"}

\* bodies of booking_service, booking_date and booking_time
capture_body(key, next, reply, text) ==
    /\ user_data' = Put(user_data, key, text)
    /\ bkTrail' = Append(bkTrail, [state |-> bkState, text |-> text])
    /\ bkState' = next
    /\ bkEffects' = {reply}
    /\ UNCHANGED appointments

booking_confirm_body(text, owner) ==
    /\ IF lower_strip(text) \in Affirmative
       THEN /\ appointments' =
                  Append(appointments,
                         create_appointment(Get(user_data, "booking_service"),
                                            Get(user_data, "booking_date"),
                                            Get(user_data, "booking_time")))
            /\ bkEffects' = {"create_appointment", "save_message_assistant",
                             "reply_received"}
                            \cup (IF owner THEN {"notify_owner"} ELSE {})
       ELSE /\ bkEffects' = {"reply_cancelled"}
            /\ UNCHANGED appointments
    /\ user_data' = EmptyData
    /\ bkState' = END
    /\ bkTrail' = <<>>

\* body of booking_button_interrupt: clear, then route the button
booking_button_interrupt_body(text, vacation, live, handoff) ==
    IF text = BUTTON_BOOKING
    THEN \* _booking_start_skip_ratelimit
         vacation_guard_booking(vacation,
            live_chat_guard_booking(live,
               booking_start_body(handoff, EmptyData)))
    ELSE ClearAndEnd({"routed"})

\* every update handled is counted and its text remembered
BookUpdate(text) ==
    /\ bkUpdates < MaxBookUpdates
    /\ bkUpdates' = bkUpdates + 1
    /\ bkText' = text
    /\ BookFrame

\* entry points: the booking button and /book, outside a conversation
booking_start(text, vacation, liveR, limited, liveG, handoff) ==
    /\ bkState = END
    /\ text \in {BUTTON_BOOKING, "/book"}
    /\ BookUpdate(text)
    /\ vacation_guard_booking(vacation,
          rate_limit_guard_booking(liveR, limited,
             live_chat_guard_booking(liveG,
                booking_start_body(handoff, user_data))))

booking_service(text, liveR, limited, liveG) ==
    /\ bkState = BOOKING_SERVICE
    /\ text \in FreeTexts
    /\ BookUpdate(text)
    /\ rate_limit_guard_booking(liveR, limited,
          live_chat_guard_booking(liveG,
             capture_body("booking_service", BOOKING_DATE, "reply_ask_date",
                          text)))

booking_date(text, liveR, limited, liveG) ==
    /\ bkState = BOOKING_DATE
    /\ text \in FreeTexts
    /\ BookUpdate(text)
    /\ rate_limit_guard_booking(liveR, limited,
          live_chat_guard_booking(liveG,
             capture_body("booking_date", BOOKING_TIME, "reply_ask_time",
                          text)))

booking_time(text, liveR, limited, liveG) ==
    /\ bkState = BOOKING_TIME
    /\ text \in FreeTexts
    /\ BookUpdate(text)
    /\ rate_limit_guard_booking(liveR, limited,
          live_chat_guard_booking(liveG,
             capture_body("booking_time", BOOKING_CONFIRM, "reply_summary",
                          text)))

booking_confirm(text, liveR, limited, liveG, owner) ==
    /\ bkState = BOOKING_CONFIRM
    /\ text \in FreeTexts
    /\ BookUpdate(text)
    /\ rate_limit_guard_booking(liveR, limited,
          live_chat_guard_booking(liveG,
             booking_confirm_body(text, owner)))

\* fallback: /cancel inside a conversation
booking_cancel(liveR, limited, liveG) ==
    /\ bkState # END
    /\ BookUpdate("/cancel")
    /\ rate_limit_guard_booking(liveR, limited,
          live_chat_guard_booking(liveG,
             ClearAndEnd({"reply_flow_cancelled"})))

\* fallback: a menu button inside a conversation
booking_button_interrupt(text, liveR, limited, liveG, vacation, liveS, handoff) ==
    /\ bkState # END
    /\ text \in ALL_BUTTON_TEXTS
    /\ BookUpdate(text)
    /\ rate_limit_guard_booking(liveR, limited,
          live_chat_guard_booking(liveG,
             booking_button_interrupt_body(text, vacation, liveS, handoff)))

\* an update no handler of the conversation matches: outside a conversation
\* anything but an entry point, inside one a command other than /cancel;
\* the handlers registered around booking_handler take it
not_routed(text) ==
    /\ \/ bkState = END /\ text \notin {BUTTON_BOOKING, "/book"}
       \/ bkState # END /\ text \in BookCommands \ {"/cancel"}
    /\ BookUpdate(text)
    /\ bkEffects' = {"not_routed"}
    /\ UNCHANGED <<bkState, user_data, appointments, bkTrail>>

(***************************************************************************)
(* Referral code after high engagement (src/bot/handlers.py)               *)
(***************************************************************************)
MaxEngageChecks == 1

\* a step of the bot's engagement task: of the referral variables it writes
\* the table (a new code) and the count of delivered messages
EngageFrame ==
    /\ UNCHANGED <<code_sent, refPc, refUser, refResult, refCalls, refFailed,
                   lateSend, markCalls, markTrue>>
    /\ UNCHANGED <<liveVars, indexVars, sumVars, bcastVars, creditVars,
                   retrVars>>
    /\ UNCHANGED <<embedVars, storeVars, cfgVars, replyVars>>
    /\ UNCHANGED nonEngageLateVars

\* db.get_user_referral_code(user_id): the code of the user, None if none
get_user_referral_code(u) == RowsOf(referrals, u) # {}

\* the task message_handler creates after a general or pricing answer:
\* nothing to do when the user has a code or is not engaged enough
\* (10 messages in 30 minutes or 20 in a day)
_check_high_engagement_referral(u, engaged) ==
    /\ hePc = "idle"
    /\ heChecks < MaxEngageChecks
    /\ heChecks' = heChecks + 1
    /\ IF ~get_user_referral_code(u) /\ engaged
       THEN hePc' = "maybe_send" /\ heUser' = u
       ELSE hePc' = "idle" /\ heUser' = "none"
    /\ UNCHANGED <<referrals, refDelivered>>
    /\ EngageFrame

\* _maybe_send_referral_code: existing_code = db.get_user_referral_code(...)
_maybe_send_referral_code ==
    /\ hePc = "maybe_send"
    /\ IF get_user_referral_code(heUser)
       THEN hePc' = "idle" /\ heUser' = "none"
       ELSE hePc' = "generate" /\ UNCHANGED heUser
    /\ UNCHANGED <<referrals, refDelivered, heChecks>>
    /\ EngageFrame

\* db.generate_referral_code: SELECT code ... WHERE referrer_id = ?
engage_generate_select ==
    /\ hePc = "generate"
    /\ hePc' = IF RowsOf(referrals, heUser) # {} THEN "reply" ELSE "insert"
    /\ UNCHANGED <<referrals, refDelivered, heUser, heChecks>>
    /\ EngageFrame

\* db.generate_referral_code: INSERT INTO referrals (referrer_id, code)
engage_generate_insert ==
    /\ hePc = "insert"
    /\ crWriter = NoThread
    /\ referrals' = Append(referrals, NewReferral(heUser))
    /\ hePc' = "reply"
    /\ UNCHANGED <<refDelivered, heUser, heChecks>>
    /\ EngageFrame

\* await _reply_markdown_safe(update.message, referral_text): the message
\* reaches the user, or the call raises and the task ends
engage_reply ==
    /\ hePc = "reply"
    /\ \E delivered \in BOOLEAN :
          refDelivered' = [refDelivered EXCEPT ![heUser] =
                              @ + (IF delivered THEN 1 ELSE 0)]
    /\ hePc' = "idle"
    /\ heUser' = "none"
    /\ UNCHANGED <<referrals, heChecks>>
    /\ EngageFrame

(***************************************************************************)
(* generate_answer and the log of unanswered questions (src/llm.py)        *)
(***************************************************************************)
MaxAnswerCalls == 2

\* the line of follow-up questions the prompt asks the model to end with
FollowUpLine == "[follow_up: q1 | q2]"

\* what the chat completion returns, as lines; <<"error">> is an exception
\* of the API call
Completions ==
    {<<"answer">>, <<"answer", CitationLine>>, <<"answer", FollowUpLine>>,
     <<"answer", CitationLine, FollowUpLine>>}
NoUser == "None"
AnswerUsers == {"u1", NoUser}
Queries == {"opening hours", "parking"}

\* llm.extract_follow_up_questions: the questions of the first match
extract_follow_up_questions(response_text) ==
    IF \E i \in 1..Len(response_text) : response_text[i] = FollowUpLine
    THEN <<"q1", "q2">>
    ELSE <<>>

\* llm.strip_follow_up_questions: the block is removed
strip_follow_up_questions(response_text) ==
    SelectSeq(response_text, LAMBDA line : line # FollowUpLine)

\* db.save_unanswered_question
save_unanswered_question(rows, user_id, question) ==
    Append(rows, [user_id |-> user_id, question |-> question])

AnswerFrame == UNCHANGED nonAnswerVars

\* llm.generate_answer(user_query, history, user_id=..., username=...),
\* with the chunks retrieve() found, the completion of the provider and the
\* setting FOLLOW_UP_ENABLED
llm_generate_answer(user_query, user_id, chunks, raw, FOLLOW_UP_ENABLED) ==
    /\ gaCalls < MaxAnswerCalls
    /\ gaCalls' = gaCalls + 1
    /\ gaInput' = [user_query |-> user_query, user_id |-> user_id]
    /\ IF raw = <<"error">>
       THEN /\ gaResult' = [answer |-> FALLBACK_RESPONSE, chunks_used |-> 0,
                            follow_up_questions |-> <<>>]
            /\ UNCHANGED unanswered_questions
       ELSE LET questions == IF FOLLOW_UP_ENABLED
                             THEN extract_follow_up_questions(raw)
                             ELSE <<>>
                raw_answer == IF FOLLOW_UP_ENABLED
                              THEN strip_follow_up_questions(raw)
                              ELSE raw
                final_answer == _quality_check(raw_answer)
                logged == final_answer = FALLBACK_RESPONSE /\ user_id # NoUser
            IN  /\ gaResult' =
                      [answer |-> final_answer, chunks_used |-> chunks,
                       follow_up_questions |->
                           IF logged THEN <<>> ELSE questions]
                /\ unanswered_questions' =
                      IF logged
                      THEN save_unanswered_question(unanswered_questions,
                                                    user_id, user_query)
                      ELSE unanswered_questions
    /\ AnswerFrame

(***************************************************************************)
(* Admin panel: update of an appointment's status (src/admin/app.py)       *)
(***************************************************************************)
MaxApptRequests == 3

\* admin request threads
ApptThreads == {"a1", "a2"}
\* appointments 1 and 2 exist, 3 does not
ApptIds == {1, 2, 3}
ApptOwner == [i \in {1, 2} |-> IF i = 1 THEN "u1" ELSE "u2"]
VALID_APPOINTMENT_STATUSES == {"pending", "confirmed", "cancelled"}
\* what the form may carry in its field `status`
FormStatuses == VALID_APPOINTMENT_STATUSES \cup {"done"}
NoRequest == [appt_id |-> 0, status |-> "none"]

ApptFrame == UNCHANGED nonApptVars

\* db.has_pending_referral(user_id)
has_pending_referral(u) == apReferral[u] = "pending"

\* a step of the request of thread t: its position and its log
ApptStep(t, to, events) ==
    /\ apPc' = [apPc EXCEPT ![t] = to]
    /\ apLog' = [apLog EXCEPT ![t] = @ \o events]

\* POST /appointments/<appt_id>/update reaches the view
update_appointment(t, appt_id, new_status) ==
    /\ apPc[t] = "idle"
    /\ apRequests < MaxApptRequests
    /\ apRequests' = apRequests + 1
    /\ apArg' = [apArg EXCEPT ![t] = [appt_id |-> appt_id, status |-> new_status]]
    /\ apPc' = [apPc EXCEPT ![t] = "validate"]
    /\ apLog' = [apLog EXCEPT ![t] = <<>>]
    /\ UNCHANGED <<apStatus, apReferral>>
    /\ ApptFrame

\* if status not in VALID_APPOINTMENT_STATUSES: 422 or flash, and return
update_validate(t) ==
    /\ apPc[t] = "validate"
    /\ IF apArg[t].status \in VALID_APPOINTMENT_STATUSES
       THEN ApptStep(t, "update_status", <<>>)
       ELSE ApptStep(t, "respond", <<>>)
    /\ UNCHANGED <<apStatus, apReferral, apArg, apRequests>>
    /\ ApptFrame

\* db.update_appointment_status(appt_id, status)
update_appointment_status(t) ==
    /\ apPc[t] = "update_status"
    /\ apStatus' = [i \in DOMAIN apStatus |->
                      IF i = apArg[t].appt_id THEN apArg[t].status
                      ELSE apStatus[i]]
    /\ ApptStep(t, IF apArg[t].status = "confirmed"
                   THEN "get_appointment" ELSE "respond",
                <<"update_appointment_status">>)
    /\ UNCHANGED <<apReferral, apArg, apRequests>>
    /\ ApptFrame

\* appt = db.get_appointment(appt_id); if appt: ...
get_appointment(t) ==
    /\ apPc[t] = "get_appointment"
    /\ ApptStep(t, IF apArg[t].appt_id \in DOMAIN apStatus
                   THEN "has_pending" ELSE "respond", <<>>)
    /\ UNCHANGED <<apStatus, apReferral, apArg, apRequests>>
    /\ ApptFrame

\* if db.has_pending_referral(user_id):
update_has_pending(t) ==
    /\ apPc[t] = "has_pending"
    /\ ApptStep(t, IF has_pending_referral(ApptOwner[apArg[t].appt_id])
                   THEN "complete" ELSE "send", <<>>)
    /\ UNCHANGED <<apStatus, apReferral, apArg, apRequests>>
    /\ ApptFrame

\* C34 mutant: the referral is left pending
update_complete_referral_skipped(t) ==
    /\ apPc[t] = "complete"
    /\ ApptStep(t, "send", <<"complete_referral">>)
    /\ UNCHANGED <<apStatus, apReferral, apArg, apRequests>>
    /\ ApptFrame

\* activated = db.complete_referral(user_id): the pending referral of the
\* user, if it is still pending, becomes completed
update_complete_referral(t) ==
    /\ apPc[t] = "complete"
    /\ LET u == ApptOwner[apArg[t].appt_id]
       IN  apReferral' = [apReferral EXCEPT ![u] =
                             IF @ = "pending" THEN "completed" ELSE @]
    /\ ApptStep(t, "send", <<"complete_referral">>)
    /\ UNCHANGED <<apStatus, apArg, apRequests>>
    /\ ApptFrame

\* try_send_referral_code(user_id, send_fn=...)
update_try_send(t) ==
    /\ apPc[t] = "send"
    /\ ApptStep(t, "respond", <<"try_send_referral_code">>)
    /\ UNCHANGED <<apStatus, apReferral, apArg, apRequests>>
    /\ ApptFrame

\* the row partial, or the flash and the redirect
update_respond(t) ==
    /\ apPc[t] = "respond"
    /\ apPc' = [apPc EXCEPT ![t] = "idle"]
    /\ apArg' = [apArg EXCEPT ![t] = NoRequest]
    /\ apLog' = [apLog EXCEPT ![t] = <<>>]
    /\ UNCHANGED <<apStatus, apReferral, apRequests>>
    /\ ApptFrame

(***************************************************************************)
(* Dimension of the embedding vectors (src/rag/embeddings.py)              *)
(***************************************************************************)
\* changes of the provider's availability seen in one run
MaxProviderChanges == 2

\* LOCAL_EMBEDDING_DIM: length of the vectors of _local_embedding
LOCAL_EMBEDDING_DIM == 1536
\* length of the vectors of the model EMBEDDING_MODEL names; the deployment
\* modelled here sets EMBEDDING_MODEL=text-embedding-3-large
ModelDim == 3072

DimFrame == UNCHANGED nonDimVars

\* get_embeddings_batch: client.embeddings.create answers, or raises and the
\* except clause embeds every text with _local_embedding
provider_outcome(ok) ==
    /\ emPc = "embed"
    /\ new_embed_texts # <<>>
    /\ dmChanges < MaxProviderChanges
    /\ embedding_dim' = IF ok THEN ModelDim ELSE LOCAL_EMBEDDING_DIM
    /\ embedding_dim' # embedding_dim
    /\ dmChanges' = dmChanges + 1
    /\ DimFrame

(***************************************************************************)
(* Process start (src/ai_chatbot/main.py, src/bot/telegram_bot.py)         *)
(***************************************************************************)
\* updates the bot handles after its start in one run
MaxStartUpdates == 3

\* what the command line selects: --bot, --admin, or neither (both)
StartModes == {"bot", "admin", "both"}

StartFrame == UNCHANGED nonStartVars

\* main(): parse_args() and db.init_db(), which creates missing tables and
\* touches no live_chats row
main(mode, token) ==
    /\ stPc = "main"
    /\ stMode' = mode
    /\ TELEGRAM_BOT_TOKEN' = token
    /\ stPc' = "dispatch"
    /\ UNCHANGED <<stAdmin, stUpdates>>
    /\ StartFrame

\* main(): `if args.admin: run_admin_panel()`, or the admin thread of the
\* default mode
run_admin_panel ==
    /\ stPc = "dispatch"
    /\ stMode \in {"admin", "both"}
    /\ ~stAdmin
    /\ stAdmin' = TRUE
    /\ stPc' = IF stMode = "admin" THEN "serving" ELSE "dispatch"
    /\ UNCHANGED <<stMode, TELEGRAM_BOT_TOKEN, stUpdates>>
    /\ StartFrame

\* run_telegram_bot(): without a token it logs and returns, otherwise
\* run_bot() is called
run_telegram_bot ==
    /\ stPc = "dispatch"
    /\ stMode = "bot" \/ (stMode = "both" /\ stAdmin)
    /\ stPc' = IF TELEGRAM_BOT_TOKEN THEN "run_bot"
               ELSE IF stMode = "both" THEN "serving" ELSE "exit"
    /\ UNCHANGED <<stMode, TELEGRAM_BOT_TOKEN, stAdmin, stUpdates>>
    /\ StartFrame

\* run_bot(): app = create_bot_application(), which builds the application
\* and registers the handlers
create_bot_application ==
    /\ stPc = "run_bot"
    /\ stPc' = "built"
    /\ UNCHANGED <<stMode, TELEGRAM_BOT_TOKEN, stAdmin, stUpdates>>
    /\ StartFrame

\* run_bot(): app.run_polling(drop_pending_updates=True); _post_init stores
\* the bot and its loop with set_bot
run_polling ==
    /\ stPc = "built"
    /\ stPc' = "polling"
    /\ UNCHANGED <<stMode, TELEGRAM_BOT_TOKEN, stAdmin, stUpdates>>
    /\ StartFrame

\* the dispatcher hands an update to its handler
process_update ==
    /\ stPc = "polling"
    /\ stUpdates < MaxStartUpdates
    /\ stUpdates' = stUpdates + 1
    /\ UNCHANGED <<stMode, TELEGRAM_BOT_TOKEN, stAdmin, stPc>>
    /\ StartFrame

(***************************************************************************)
(* Every subsystem at rest                                                 *)
(***************************************************************************)
\* the store as a previous run can leave it: no session, or one still active
LiveRest ==
    /\ conversations = <<>>
    /\ vacation_mode = FALSE
    /\ dbWriter = NoThread
    /\ txn = <<>>
    /\ pc = [t \in AdminThreads |-> "idle"]
    /\ op = [t \in AdminThreads |-> NoOp]
    /\ sent = [t \in AdminThreads |-> FALSE]
    /\ status = [t \in AdminThreads |-> "none"]
    /\ adminOps = 0
    /\ cleanupPc = "idle"
    /\ botPc = "idle"
    /\ botMsg = NoMsg
    /\ nextMsg = 0
    /\ outbox = {}
    /\ llmCalls = {}
    /\ agentRequests = {}
    /\ backReached = [u \in Users |-> FALSE]
    /\ endedByEnd = [u \in Users |-> FALSE]
    /\ deactBy = [u \in Users |-> "none"]
    /\ silenced = {}

\* the live-chat subsystem at rest, without any session
LiveIdle ==
    /\ live_chats = <<>>
    /\ LiveRest

\* no retrieve call under way
RetrIdle ==
    /\ rtPc = [t \in IndexThreads |-> "idle"]
    /\ rtSawStale = [t \in IndexThreads |-> FALSE]
    /\ rtAbsent = [t \in IndexThreads |-> FALSE]
    /\ rtRebuilt = [t \in IndexThreads |-> FALSE]
    /\ rtCalls = 0

\* index state of a fresh start: no flag, or the flag a previous run left
\* (stamped before the present timestamp)
IndexIdle ==
    /\ fsClock = 2
    /\ kbVersion = 0
    /\ diskIndex = 0
    /\ rebuildLock = [p \in Procs |-> NoThread]
    /\ ixPc = [t \in IndexThreads |-> "idle"]
    /\ ixToken = [t \in IndexThreads |-> 0]
    /\ ixSnap = [t \in IndexThreads |-> 0]
    /\ ixOps = 0
    /\ markedDuring = [t \in IndexThreads |-> FALSE]
    /\ absentAtClear = [t \in IndexThreads |-> FALSE]
    /\ erasedOwn = [t \in IndexThreads |-> FALSE]

\* the summarizer before its first call
SumRest ==
    /\ summaries = [u \in SumUsers |-> <<>>]
    /\ heldLocks = {}
    /\ nextLock = 2
    /\ sumPc = [t \in SumThreads |-> "idle"]
    /\ sumUser = [t \in SumThreads |-> "none"]
    /\ sumLock = [t \in SumThreads |-> 0]
    /\ sumBatch = [t \in SumThreads |-> {}]
    /\ sumExisting = [t \in SumThreads |-> {}]
    /\ sumCalls = 0
    /\ sumMsgs = 0

SumIdle ==
    /\ _summarize_locks = <<>>
    /\ SumRest

\* the broadcast worker before start_broadcast_task is called
BcastRest ==
    /\ unsubscribed = 0
    /\ bcPc = "idle"
    /\ bcMode = "none"
    /\ needs_init = FALSE
    /\ bcI = 0
    /\ bcSent = 0
    /\ bcFailed = 0
    /\ bcAttempts = 0
    /\ bcPending = "none"
    /\ bcTask = "none"
    /\ bcHandled = FALSE
    /\ ckSent = 0
    /\ ckFailed = 0
    /\ bcOutcome = "none"

BcastIdle ==
    /\ recipients = 0
    /\ broadcast = create_broadcast(0)
    /\ BcastRest

\* the referral flow on an empty table referrals
RefIdle ==
    /\ referrals = <<>>
    /\ code_sent = [u \in RefUsers |-> FALSE]
    /\ refPc = [t \in RefThreads |-> "idle"]
    /\ refUser = [t \in RefThreads |-> "none"]
    /\ refResult = [t \in RefThreads |-> FALSE]
    /\ refCalls = 0
    /\ refDelivered = [u \in RefUsers |-> 0]
    /\ refFailed = [u \in RefUsers |-> FALSE]
    /\ lateSend = [u \in RefUsers |-> FALSE]
    /\ markCalls = [u \in RefUsers |-> 0]
    /\ markTrue = [u \in RefUsers |-> 0]

\* registration and completion at rest, no credit minted
CreditIdle ==
    /\ credits = <<>>
    /\ crWriter = NoThread
    /\ crTxn = NoTxn
    /\ regPc = "idle"
    /\ regCode = 0
    /\ regUser = "none"
    /\ regResult = FALSE
    /\ regCalls = 0
    /\ cmpPc = [t \in CompleteThreads |-> "idle"]
    /\ cmpUser = [t \in CompleteThreads |-> "none"]
    /\ cmpRow = [t \in CompleteThreads |-> 0]
    /\ cmpCalls = 0

\* no rebuild has run on the chunk table yet
EmbedRest ==
    /\ kb_chunks = [e \in EmbEntries |-> <<>>]
    /\ emPc = "idle"
    /\ all_chunks = <<>>
    /\ stored_chunks = [e \in EmbEntries |-> <<>>]
    /\ unchanged_entry_ids = {}
    /\ changed_entry_ids = {}
    /\ new_embed_indices = <<>>
    /\ new_embed_texts = <<>>
    /\ all_embeddings = <<>>
    /\ embedder_input = <<>>
    /\ emCalls = 0
    /\ emEdits = 0

EmbedIdle ==
    /\ kb_entries = [e \in EmbEntries |-> <<"a">>]
    /\ EmbedRest

\* a process that has not touched its vector store yet
StoreRest ==
    /\ _store = NoStore
    /\ vsIndex = [s \in Stores |-> NoIndex]
    /\ vsMeta = [s \in Stores |-> <<>>]
    /\ vsNext = 1
    /\ vsPc = [t \in VsThreads |-> "idle"]
    /\ vsInst = [t \in VsThreads |-> NoStore]
    /\ vsRet = [t \in VsThreads |-> "idle"]
    /\ vsInput = [t \in VsThreads |-> <<>>]
    /\ vsHits = <<>>
    /\ vsResult = <<>>
    /\ vsSearches = 0
    /\ vsBuilds = 0
    /\ vsLock = NoThread

StoreIdle ==
    /\ vsDisk = NoDisk
    /\ StoreRest

\* the threshold of the deployment modelled
CfgIdle ==
    /\ summary_threshold = SUMMARY_THRESHOLD

\* no update received yet
ReplyIdle ==
    /\ rpPc = "idle"
    /\ rpHandler = "none"
    /\ rpRaw = NoAnswer
    /\ rpAnswer = NoAnswer
    /\ rpSent = {}
    /\ rpUpdates = 0
    /\ rpRequests = 0
    /\ rpNotified = 0

\* no update has reached the rate-limit guard
RateIdle ==
    /\ _user_timestamps = <<>>
    /\ now = 0
    /\ rlPc = "idle"
    /\ rlResult = "None"
    /\ rlNow = 0
    /\ rlRecorded = <<>>
    /\ rlChecks = 0
    /\ rlTicks = 0
    /\ rlReplies = <<>>
    /\ rlLive = FALSE
    /\ rlHandled = 0

\* no message classified yet
IntentIdle ==
    /\ inMessage = <<>>
    /\ inIntent = "none"
    /\ inCalls = 0

\* no booking conversation, no appointment
BookIdle ==
    /\ bkState = END
    /\ user_data = EmptyData
    /\ appointments = <<>>
    /\ bkTrail = <<>>
    /\ bkText = ""
    /\ bkEffects = {}
    /\ bkUpdates = 0

\* no engagement task running
EngageIdle ==
    /\ hePc = "idle"
    /\ heUser = "none"
    /\ heChecks = 0

\* no answer generated, no unanswered question logged
AnswerIdle ==
    /\ gaInput = [user_query |-> "none", user_id |-> "None"]
    /\ gaResult = [answer |-> <<>>, chunks_used |-> 0,
                   follow_up_questions |-> <<>>]
    /\ unanswered_questions = <<>>
    /\ gaCalls = 0

\* no appointment, no admin request
ApptIdle ==
    /\ apStatus = <<>>
    /\ apReferral = [u \in {"u1", "u2"} |-> "none"]
    /\ apPc = [t \in ApptThreads |-> "idle"]
    /\ apArg = [t \in ApptThreads |-> NoRequest]
    /\ apLog = [t \in ApptThreads |-> <<>>]
    /\ apRequests = 0

\* the provider answers with the vectors of EMBEDDING_MODEL
DimIdle ==
    /\ embedding_dim = ModelDim
    /\ dmChanges = 0

\* the process has not started
StartIdle ==
    /\ stPc = "main"
    /\ stMode = "none"
    /\ TELEGRAM_BOT_TOKEN = FALSE
    /\ stAdmin = FALSE
    /\ stUpdates = 0

\* the subsystems that follow the handlers' replies, at rest
LateIdle ==
    /\ RateIdle
    /\ StartIdle
    /\ DimIdle
    /\ ApptIdle
    /\ AnswerIdle
    /\ EngageIdle
    /\ IntentIdle
    /\ BookIdle

\* the subsystems that follow the retrieval protocol, at rest
RestIdle ==
    /\ EmbedIdle
    /\ StoreIdle
    /\ CfgIdle
    /\ ReplyIdle
    /\ LateIdle

\* the subsystems up to the retrieval protocol, at rest
BaseIdle ==
    /\ LiveIdle
    /\ IndexIdle /\ staleMtime = 0
    /\ SumIdle
    /\ BcastIdle
    /\ RefIdle
    /\ CreditIdle
    /\ deployment = "split"
    /\ RetrIdle

(***************************************************************************)
(* Specification of the live-chat subsystem                                *)
(***************************************************************************)
InitLive ==
    /\ live_chats \in {<<>>, <<[user_id |-> "u1", is_active |-> TRUE]>>}
    /\ LiveRest
    /\ IndexIdle /\ staleMtime = 0
    /\ SumIdle
    /\ BcastIdle
    /\ RefIdle
    /\ CreditIdle
    /\ deployment = "split"
    /\ RetrIdle
    /\ RestIdle

NextLive ==
    \/ \E t \in AdminThreads : AdminRequest(t)
    \/ \E t \in AdminThreads : AdminReturn(t)
    \/ \E t \in AdminThreads : start_check(t)
    \/ \E t \in AdminThreads : start_live_chat_update(t)
    \/ \E t \in AdminThreads : start_live_chat_insert(t)
    \/ \E t \in AdminThreads : start_live_chat_commit(t)
    \/ \E t \in AdminThreads : start_send(t)
    \/ \E t \in AdminThreads : start_save(t)
    \/ \E t \in AdminThreads : end_check(t)
    \/ \E t \in AdminThreads : end_send(t)
    \/ \E t \in AdminThreads : end_save(t)
    \/ \E t \in AdminThreads : end_deactivate(t)
    \/ \E t \in AdminThreads : send_check(t)
    \/ \E t \in AdminThreads : send_send(t)
    \/ \E t \in AdminThreads : send_save(t)
    \/ cleanup_select
    \/ cleanup_update
    \/ update_vacation_mode
    \/ BotReceive
    \/ vacation_guard
    \/ rate_limit_guard
    \/ live_chat_guard
    \/ handler_body
    \/ handler_llm
    \/ handler_persist
    \/ handler_reply

SpecLive == InitLive /\ [][NextLive]_vars

(***************************************************************************)
(* Claims on the live-chat subsystem                                       *)
(***************************************************************************)
\* C1: in every reachable state each user has at most one live_chats row
\* with is_active = 1, whatever the interleaving of start_live_chat,
\* end_live_chat and cleanup_stale_live_chats (two start transactions for one
\* user included).
C1_AtMostOneActive ==
    \A u \in Users : Cardinality(ActiveRows(live_chats, u)) <= 1

\* two start() requests for one user both passed the check and both committed
C1_Witness ==
    /\ op["a1"].kind = "start" /\ op["a2"].kind = "start"
    /\ op["a1"].user_id = op["a2"].user_id
    /\ pc["a1"] = "start_send" /\ pc["a2"] = "start_send"
    /\ Cardinality({i \in 1..Len(live_chats) :
                       live_chats[i].user_id = op["a1"].user_id}) >= 2

BotMessageKinds == {"bot", "vacation", "rate_limit"}

SessionStillActive ==
    /\ botMsg.session # 0
    /\ live_chats[botMsg.session].is_active

\* C3: while the live-chat session of u that was active when a text update
\* of u was dispatched to a guarded handler is still active, no bot-authored
\* message is sent for that update, no LLM call and no agent request is made
\* for it, and when its handling ends it is stored as a 'user' row.
C3_Original ==
    [][(botMsg.hasText /\ SessionStillActive) =>
          /\ \A o \in outbox' \ outbox : o.kind \notin BotMessageKinds
          /\ llmCalls' = llmCalls
          /\ agentRequests' = agentRequests
          /\ (botMsg' = NoMsg =>
                 \E i \in 1..Len(conversations') :
                    /\ conversations'[i].role = "user"
                    /\ conversations'[i].ref = botMsg.id)]_vars

\* the part of C3 that live_chat_guard itself decides: a text update the
\* guard examined while the sender's session was active is stored as a
\* 'user' row, and for it the bot sent no reply, made no LLM call and created
\* no agent request.
LiveGuardSilencesAndSaves ==
    \A m \in silenced :
        /\ \E i \in 1..Len(conversations) :
               conversations[i].role = "user" /\ conversations[i].ref = m
        /\ ~\E o \in outbox : o.kind \in BotMessageKinds /\ o.ref = m
        /\ m \notin llmCalls
        /\ m \notin agentRequests

(***************************************************************************)
(* Specification of the index staleness protocol                           *)
(***************************************************************************)
InitIndex ==
    /\ staleMtime \in {0, 1}
    /\ IndexIdle
    /\ LiveIdle
    /\ SumIdle
    /\ BcastIdle
    /\ RefIdle
    /\ CreditIdle
    /\ deployment = "split"
    /\ RetrIdle
    /\ RestIdle

NextIndex ==
    \/ Tick
    \/ \E t \in IndexThreads : kb_write(t)
    \/ \E t \in IndexThreads : mark_index_stale(t)
    \/ \E t \in IndexThreads : rebuild_index(t)
    \/ \E t \in IndexThreads : rebuild_capture(t)
    \/ \E t \in IndexThreads : rebuild_entries(t)
    \/ \E t \in IndexThreads : rebuild_raises(t)
    \/ \E t \in IndexThreads : rebuild_save(t)
    \/ \E t \in IndexThreads : _maybe_clear_stale(t)
    \/ \E t \in IndexThreads : rebuild_return(t)

SpecIndex == InitIndex /\ [][NextIndex]_vars

(***************************************************************************)
(* Claims on the index staleness protocol                                  *)
(***************************************************************************)
\* C4: when rebuild_index() is about to return normally, .stale was absent
\* after its clear step if and only if no mark_index_stale() landed between
\* its capture of start_token and that clear step, and its clear step did
\* not unlink a flag that was marked in between.
C4_Original ==
    \A t \in IndexThreads :
        ixPc[t] = "return" =>
            /\ absentAtClear[t] <=> ~markedDuring[t]
            /\ ~erasedOwn[t]

(***************************************************************************)
(* Specification of retrieval over the index staleness protocol            *)
(***************************************************************************)
InitRetrieve ==
    /\ deployment \in {"split", "single"}
    /\ staleMtime \in {0, 1}
    /\ IndexIdle
    /\ RetrIdle
    /\ LiveIdle
    /\ SumIdle
    /\ BcastIdle
    /\ RefIdle
    /\ CreditIdle
    /\ RestIdle

NextRetrieve ==
    \/ Tick
    \/ \E t \in IndexThreads : kb_write(t)
    \/ \E t \in IndexThreads : mark_index_stale(t)
    \/ \E t \in IndexThreads : rebuild_index(t)
    \/ \E t \in IndexThreads : rebuild_capture(t)
    \/ \E t \in IndexThreads : rebuild_entries(t)
    \/ \E t \in IndexThreads : rebuild_raises(t)
    \/ \E t \in IndexThreads : rebuild_save(t)
    \/ \E t \in IndexThreads : _maybe_clear_stale(t)
    \/ \E t \in IndexThreads : rebuild_return(t)
    \/ \E t \in IndexThreads : retrieve(t)
    \/ \E t \in IndexThreads : retrieve_check1(t)
    \/ \E t \in IndexThreads : retrieve_lock(t)
    \/ \E t \in IndexThreads : retrieve_check2(t)
    \/ \E t \in IndexThreads : retrieve_rebuilt(t)
    \/ \E t \in IndexThreads : retrieve_store(t)
    \/ \E t \in IndexThreads : retrieve_search(t)

SpecRetrieve == InitRetrieve /\ [][NextRetrieve]_vars

(***************************************************************************)
(* Claims on retrieval                                                     *)
(***************************************************************************)
\* C13: a retrieve call that saw the sentinel does its second test and its
\* rebuild while it owns the rebuild lock, and reaches the store only after
\* it has run rebuild_index() itself or found the sentinel gone at that
\* second test; the sentinel is removed by nothing but the clear step of a
\* rebuild.
C13_RebuildBeforeSearch ==
    /\ [](\A t \in IndexThreads :
             /\ rtPc[t] \in {"check2", "rebuild"} =>
                   rebuildLock[ProcOf(t)] = t
             /\ (rtPc[t] \in {"store", "rebuild_empty", "search"}
                    /\ rtSawStale[t]) =>
                   (rtRebuilt[t] \/ rtAbsent[t]))
    /\ [][(staleMtime # 0 /\ staleMtime' = 0) =>
             \E r \in IndexThreads :
                ixPc[r] = "clear" /\ ixPc'[r] = "return"]_vars

\* bot and admin panel share one process: a retrieve that saw the sentinel
\* found it gone under the lock and searches without rebuilding
C13_Witness ==
    \E t \in IndexThreads :
        /\ deployment = "single"
        /\ rtPc[t] = "search"
        /\ rtSawStale[t]
        /\ rtAbsent[t]
        /\ ~rtRebuilt[t]

(***************************************************************************)
(* Specification of the conversation summarizer                            *)
(***************************************************************************)
\* the lock map of a fresh process, or of a process in which u1 and then
\* _MAX_LOCKS - 1 other users were summarized (every lock released)
InitSum ==
    /\ _summarize_locks \in
          {<<>>,
           <<[user |-> "u1", lock |-> 1, n |-> 1],
             [user |-> OtherUsers, lock |-> 0, n |-> _MAX_LOCKS - 1]>>}
    /\ SumRest
    /\ LiveIdle
    /\ IndexIdle /\ staleMtime = 0
    /\ BcastIdle
    /\ RefIdle
    /\ CreditIdle
    /\ deployment = "split"
    /\ RetrIdle
    /\ RestIdle

NextSum ==
    \/ sum_save_message
    \/ \E t \in SumThreads : maybe_summarize(t)
    \/ \E t \in SumThreads : _get_user_lock(t)
    \/ \E t \in SumThreads : lock_acquire(t)
    \/ \E t \in SumThreads : sum_count(t)
    \/ \E t \in SumThreads : sum_fetch(t)
    \/ \E t \in SumThreads : sum_latest(t)
    \/ \E t \in SumThreads : _generate_summary(t)
    \/ \E t \in SumThreads : summary_none(t)
    \/ \E t \in SumThreads : save_conversation_summary(t)
    \/ \E t \in SumThreads : lock_release(t)

SpecSum == InitSum /\ [][NextSum]_vars

(***************************************************************************)
(* Claims on the conversation summarizer                                   *)
(***************************************************************************)
\* C5: for every user at most one maybe_summarize call is between its
\* lock.acquire and its lock.release (the section that reads
\* last_summarized_message_id and saves the summary), whatever the state of
\* the bounded lock map.
C5_Original ==
    \A u \in SumUsers : Cardinality(Summarizing(u)) <= 1

\* C6: in every step the high-water mark of a user does not decrease, it is
\* at least the id of every message the stored summary covers, and a row
\* inserted by the step has an id above it.
C6_Original ==
    [][\A u \in SumUsers :
          /\ _last_summarized_message_id(u)' >= _last_summarized_message_id(u)
          /\ \A i \in 1..Len(summaries'[u]) : \A x \in summaries'[u][i].covered :
                x <= _last_summarized_message_id(u)'
          /\ \A j \in (Len(conversations) + 1)..Len(conversations') :
                conversations'[j].user_id = u =>
                    conversations'[j].id > _last_summarized_message_id(u)]_vars

(***************************************************************************)
(* Specification of the broadcast worker                                   *)
(***************************************************************************)
\* a broadcast created for its list of recipients, its worker not yet started
InitBcast ==
    /\ recipients \in 0..MaxRecipients
    /\ broadcast = create_broadcast(recipients)
    /\ BcastRest
    /\ LiveIdle
    /\ IndexIdle /\ staleMtime = 0
    /\ SumIdle
    /\ RefIdle
    /\ CreditIdle
    /\ deployment = "split"
    /\ RetrIdle
    /\ RestIdle

NextBcast ==
    \/ \E mode \in {"loop", "thread"}, init \in BOOLEAN :
          start_broadcast_task(mode, init)
    \/ send_broadcast
    \/ bot_initialize
    \/ mark_sending
    \/ loop_next
    \/ send_message
    \/ unsubscribe_user
    \/ retry_after_sleep
    \/ retry_send
    \/ progress_update
    \/ send_delay
    \/ complete
    \/ bot_shutdown
    \/ cancel
    \/ _handle_future_error
    \/ _run

SpecBcast == InitBcast /\ [][NextBcast]_vars

(***************************************************************************)
(* Claims on the broadcast worker                                          *)
(***************************************************************************)
\* C7: at all times sent + failed is at most recipient_count, for the
\* worker's counters and for the counters stored in the broadcast row, and
\* none of the four counters ever decreases.
C7_CountsBoundedAndMonotone ==
    /\ [](/\ bcSent + bcFailed <= broadcast.recipient_count
          /\ broadcast.sent_count + broadcast.failed_count
                <= broadcast.recipient_count)
    /\ [][/\ bcSent' >= bcSent
          /\ bcFailed' >= bcFailed
          /\ broadcast'.sent_count >= broadcast.sent_count
          /\ broadcast'.failed_count >= broadcast.failed_count]_vars

\* a run over more recipients than one checkpoint interval that completed
\* with deliveries and failures, every recipient counted once
C7_Witness ==
    /\ broadcast.status = "completed"
    /\ broadcast.recipient_count > _PROGRESS_UPDATE_INTERVAL
    /\ broadcast.sent_count > 0
    /\ broadcast.failed_count > 0
    /\ broadcast.sent_count + broadcast.failed_count
          = broadcast.recipient_count

InitRef ==
    /\ RefIdle
    /\ LiveIdle
    /\ IndexIdle /\ staleMtime = 0
    /\ SumIdle
    /\ BcastIdle
    /\ CreditIdle
    /\ deployment = "split"
    /\ RetrIdle
    /\ RestIdle

NextRef ==
    \/ \E t \in RefThreads, u \in RefUsers : try_send_referral_code(t, u)
    \/ \E t \in RefThreads : generate_select(t)
    \/ \E t \in RefThreads : generate_insert(t)
    \/ \E t \in RefThreads : mark_sent(t)
    \/ \E t \in RefThreads : send_fn(t)
    \/ \E t \in RefThreads : unmark_sent(t)
    \/ \E t \in RefThreads : referral_return(t)

SpecRef == InitRef /\ [][NextRef]_vars

(***************************************************************************)
(* Claims on the referral code send flow                                   *)
(***************************************************************************)
\* C9: among the mark_sent(u) calls made since the flag of u was last unset,
\* with no unmark_sent(u) in between, exactly one has returned true.
C9_ExactlyOneMarkWins ==
    \A u \in RefUsers :
        /\ markTrue[u] <= 1
        /\ markCalls[u] >= 1 => markTrue[u] = 1

\* three mark_sent calls for one user without an unmark in between
C9_Witness ==
    \E u \in RefUsers : markCalls[u] >= 3 /\ markTrue[u] = 1

\* a flow holds the flag of u between its mark_sent and its return or unmark
Marked(u) ==
    \E t \in RefThreads : refUser[t] = u /\ refPc[t] \in {"send", "unmark"}

\* C10: when no flow is between mark_sent and the end of its send, the flag
\* of a user is set exactly if the message was delivered (a failed send has
\* reset it, a delivery has kept it); a flow that returns false after a
\* failed send has nothing delivered on its account, and after a delivery no
\* further send is attempted.
C10_FlagFollowsDelivery ==
    \A u \in RefUsers :
        /\ ~Marked(u) => (code_sent[u] <=> refDelivered[u] >= 1)
        /\ refDelivered[u] <= 1
        /\ ~lateSend[u]

\* a send failed, the flag was reset, and a later flow marked and delivered
C10_Witness ==
    \E u \in RefUsers :
        /\ refFailed[u]
        /\ refDelivered[u] = 1
        /\ code_sent[u]
        /\ ~Marked(u)
        /\ \A t \in RefThreads : refPc[t] = "idle"

(***************************************************************************)
(* Specification of referral registration and completion                   *)
(***************************************************************************)
\* the flows run so far were for u1 and their sends failed: u1 has a code,
\* its flag is unset, nothing is registered yet
InitCredit ==
    /\ referrals = <<NewReferral("u1")>>
    /\ code_sent = [u \in RefUsers |-> FALSE]
    /\ refPc = [t \in RefThreads |-> "idle"]
    /\ refUser = [t \in RefThreads |-> "none"]
    /\ refResult = [t \in RefThreads |-> FALSE]
    /\ refCalls = MaxRefCalls - 1
    /\ refDelivered = [u \in RefUsers |-> 0]
    /\ refFailed = [u \in RefUsers |-> u = "u1"]
    /\ lateSend = [u \in RefUsers |-> FALSE]
    /\ markCalls = [u \in RefUsers |-> 0]
    /\ markTrue = [u \in RefUsers |-> 0]
    /\ CreditIdle
    /\ LiveIdle
    /\ IndexIdle /\ staleMtime = 0
    /\ SumIdle
    /\ BcastIdle
    /\ deployment = "split"
    /\ RetrIdle
    /\ RestIdle

NextCredit ==
    \/ \E code \in 1..(Len(referrals) + 1), u \in CreditUsers :
          register_referral(code, u)
    \/ register_select
    \/ register_existing
    \/ register_update
    \/ register_return
    \/ \E t \in CompleteThreads, u \in CreditUsers : complete_referral(t, u)
    \/ \E t \in CompleteThreads : complete_select(t)
    \/ \E t \in CompleteThreads : complete_update(t)
    \/ \E t \in CompleteThreads : complete_credit_referrer(t)
    \/ \E t \in CompleteThreads : complete_credit_referred(t)
    \/ \E t \in CompleteThreads : complete_commit(t)
    \/ \E t \in CompleteThreads : complete_rollback(t)
    \/ \E t \in CompleteThreads : complete_return(t)
    \/ \E t \in RefThreads, u \in RefUsers : try_send_referral_code(t, u)
    \/ \E t \in RefThreads : generate_select(t)
    \/ \E t \in RefThreads : generate_insert(t)
    \/ \E t \in RefThreads : mark_sent(t)
    \/ \E t \in RefThreads : send_fn(t)
    \/ \E t \in RefThreads : unmark_sent(t)
    \/ \E t \in RefThreads : referral_return(t)

SpecCredit == InitCredit /\ [][NextCredit]_vars

(***************************************************************************)
(* Claims on referral registration and completion                          *)
(***************************************************************************)
\* credit rows of one type minted for the referral with id i
Minted(i, type) ==
    Cardinality({k \in DOMAIN credits :
                    credits[k].referral = i /\ credits[k].type = type})

\* C11: every completed referral has completed_at stamped and exactly one
\* credit row for its referrer and one for its referred user, each expiring
\* 60 days later, and a referral that is not completed has none: the number
\* of credit rows is twice the number of completed referrals.
C11_Original ==
    /\ \A i \in DOMAIN referrals :
          LET n == IF referrals[i].status = "completed" THEN 1 ELSE 0
          IN  /\ Minted(i, "referrer") = n
              /\ Minted(i, "referred") = n
              /\ referrals[i].completed_at <=> referrals[i].status = "completed"
    /\ \A k \in DOMAIN credits : credits[k].expires_days = 60
    /\ Len(credits) =
          2 * Cardinality({i \in DOMAIN referrals :
                              referrals[i].status = "completed"})

\* C12: no referral refers its own referrer, no user is the referred user of
\* two referrals, and a step sets referred_id of a referral only if it was
\* null, the new user is not the referrer, and the new user was not the
\* referred user of any referral.
C12_RegisterGuarded ==
    /\ [](\A i \in DOMAIN referrals :
             /\ referrals[i].referrer_id # referrals[i].referred_id
             /\ \A j \in DOMAIN referrals :
                   (i # j /\ referrals[i].referred_id = referrals[j].referred_id)
                      => referrals[i].referred_id = "none")
    /\ [][\A i \in DOMAIN referrals :
             referrals'[i].referred_id # referrals[i].referred_id =>
                /\ referrals[i].referred_id = "none"
                /\ referrals'[i].referred_id # referrals[i].referrer_id
                /\ \A j \in DOMAIN referrals :
                      referrals[j].referred_id # referrals'[i].referred_id]_vars

\* u3 registered with one code and was then refused with the other, and a
\* user was refused with their own code
C12_Witness ==
    /\ \E i \in DOMAIN referrals : referrals[i].referred_id = "u3"
    /\ regPc = "return"
    /\ ~regResult
    /\ regCode \in DOMAIN referrals
    /\ \/ /\ regUser = "u3"
          /\ referrals[regCode].referred_id = "none"
       \/ referrals[regCode].referrer_id = regUser

(***************************************************************************)
(* Specification of the incremental embedding                              *)
(***************************************************************************)
\* three entries of any content, none indexed yet
InitEmbed ==
    /\ kb_entries \in [EmbEntries -> Contents]
    /\ EmbedRest
    /\ StoreIdle
    /\ CfgIdle
    /\ ReplyIdle
    /\ LateIdle
    /\ BaseIdle

NextEmbed ==
    \/ \E e \in EmbEntries, c \in Contents : update_kb_entry(e, c)
    \/ rebuild_load
    \/ rebuild_classify
    \/ rebuild_collect
    \/ get_embeddings_batch
    \/ build_index_and_save
    \/ rebuild_save_chunks

SpecEmbed == InitEmbed /\ [][NextEmbed]_vars

\* the new and the stored chunk texts of an entry, as the rebuild read them
NewTexts(e) ==
    LET cs == chunks_by_entry(all_chunks, e)
    IN  [i \in 1..Len(cs) |-> cs[i].text]

StoredTexts(e) ==
    [i \in 1..Len(stored_chunks[e]) |-> stored_chunks[e][i].chunk_text]

\* the chunk texts, in order, of the entries whose new sequence differs
\* from the stored one
TextsOfChanged ==
    LET cs == SelectSeq(all_chunks,
                  LAMBDA c : NewTexts(c.entry_id) # StoredTexts(c.entry_id))
    IN  [i \in 1..Len(cs) |-> cs[i].text]

\* C14: once rebuild_index has passed its embedding step, the texts the
\* embedder received are exactly the chunk texts of the entries whose new
\* chunk-text sequence differs from the stored one, and every chunk of an
\* entry whose sequence is the same carries the vector stored for it, which
\* an earlier rebuild computed
C14_EmbedsExactlyChanged ==
    emPc \in {"build", "save"} =>
        /\ embedder_input = TextsOfChanged
        /\ \A i \in 1..Len(all_chunks) :
              LET e == all_chunks[i].entry_id
              IN  NewTexts(e) = StoredTexts(e) =>
                    /\ \E k \in 1..Len(stored_chunks[e]) :
                          /\ stored_chunks[e][k].chunk_index
                                = all_chunks[i].index
                          /\ all_embeddings[i]
                                = stored_chunks[e][k].embedding
                    /\ all_embeddings[i].call < emCalls
                    /\ all_embeddings[i].text = all_chunks[i].text

\* one of three indexed entries was edited, and the rebuild that followed
\* has embedded the chunks of that entry only
C14_Witness ==
    /\ emPc = "save"
    /\ emCalls = 2
    /\ \A e \in EmbEntries : stored_chunks[e] # <<>>
    /\ \E e \in EmbEntries :
          /\ NewTexts(e) # StoredTexts(e)
          /\ NewTexts(e) # <<>>
          /\ embedder_input = NewTexts(e)
          /\ \A o \in EmbEntries \ {e} : NewTexts(o) = StoredTexts(o)

(***************************************************************************)
(* Specification of the vector store                                       *)
(***************************************************************************)
\* no index directory yet, or the one an earlier run saved
InitStore ==
    /\ vsDisk \in {NoDisk} \cup
          {[index |-> c, metadata |-> c] : c \in Corpora \ {<<>>}}
    /\ StoreRest
    /\ EmbedIdle
    /\ CfgIdle
    /\ ReplyIdle
    /\ LateIdle
    /\ BaseIdle

NextStore ==
    \/ \E t \in VsThreads, c \in Corpora : vs_rebuild_index(t, c)
    \/ \E t \in VsThreads : reset_vector_store(t)
    \/ \E t \in VsThreads : get_vector_store(t)
    \/ \E t \in VsThreads : store_create(t)
    \/ \E t \in VsThreads : store_load(t)
    \/ \E t \in VsThreads : store_load_metadata(t)
    \/ \E t \in VsThreads : get_vector_store_return(t)
    \/ \E t \in VsThreads : build_index_metadata(t)
    \/ \E t \in VsThreads : build_index_new(t)
    \/ \E t \in VsThreads : build_index_add(t)
    \/ \E t \in VsThreads : build_empty_index(t)
    \/ \E t \in VsThreads : build_empty_metadata(t)
    \/ \E t \in VsThreads : store_save(t)
    \/ \E t \in VsThreads : vs_rebuild_return(t)
    \/ \E t \in VsThreads : vs_retrieve(t)
    \/ \E t \in VsThreads : vs_retrieve_check(t)
    \/ \E t \in VsThreads : search(t)
    \/ \E t \in VsThreads : search_index(t)
    \/ \E t \in VsThreads : search_metadata(t)
    \/ \E t \in VsThreads : vs_raised(t)

SpecStore == InitStore /\ [][NextStore]_vars

\* C15: the store a rebuild has just built, and the store a search is
\* running on, have as many metadata items as vectors, and item i describes
\* vector i
C15_Original ==
    \A t \in VsThreads :
        /\ vsPc[t] = "built" => Aligned(vsInst[t])
        /\ vsPc[t] \in {"search", "search_index", "search_metadata"}
              => Aligned(vsInst[t])

(***************************************************************************)
(* Specification of the summarization window                               *)
(***************************************************************************)
\* a threshold above one, as src/config.py reads it from the environment
WindowThreshold == 2

\* a fresh process (empty lock map) and no conversation row
InitWindow ==
    /\ summary_threshold = WindowThreshold
    /\ SumIdle
    /\ LiveIdle
    /\ IndexIdle /\ staleMtime = 0
    /\ BcastIdle
    /\ RefIdle
    /\ CreditIdle
    /\ deployment = "split"
    /\ RetrIdle
    /\ EmbedIdle
    /\ StoreIdle
    /\ ReplyIdle
    /\ LateIdle

NextWindow ==
    \/ sum_save_message
    \/ \E t \in SumThreads : maybe_summarize(t)
    \/ \E t \in SumThreads : _get_user_lock(t)
    \/ \E t \in SumThreads : lock_acquire(t)
    \/ \E t \in SumThreads : sum_count(t)
    \/ \E t \in SumThreads : sum_fetch(t)
    \/ \E t \in SumThreads : sum_latest(t)
    \/ \E t \in SumThreads : _generate_summary(t)
    \/ \E t \in SumThreads : summary_none(t)
    \/ \E t \in SumThreads : save_conversation_summary(t)
    \/ \E t \in SumThreads : lock_release(t)

SpecWindow == InitWindow /\ [][NextWindow]_vars

\* the oldest summary_threshold unsummarized messages of a user
Window(u) ==
    {x \in Unsummarized(u) :
        Cardinality({y \in Unsummarized(u) : y < x}) < summary_threshold}

\* C16: while the lock map is below its capacity, a maybe_summarize call is
\* past its count test only if the user has at least summary_threshold
\* unsummarized messages (with threshold - 1 of them no summary is made),
\* and every step that stores a summary is the save of one call, covers
\* exactly the oldest summary_threshold unsummarized messages and moves the
\* high-water mark to the newest of them, so that exactly those messages
\* stop being unsummarized
C16_ThresholdWindow ==
    /\ [](\A t \in SumThreads :
            sumPc[t] \in {"fetch", "latest", "generate", "failed", "save"}
               => get_unsummarized_message_count(sumUser[t])
                     >= summary_threshold)
    /\ [][\A u \in SumUsers :
            summaries'[u] # summaries[u] =>
               /\ Cardinality(Window(u)) = summary_threshold
               /\ Len(summaries'[u]) = 1
               /\ _last_summarized_message_id(u)' = MaxOf(Window(u))
               /\ Unsummarized(u)' = Unsummarized(u) \ Window(u)
               /\ summaries'[u][1].covered
                     = get_latest_summary(u) \cup Window(u)
               /\ \E t \in SumThreads :
                     /\ sumUser[t] = u
                     /\ sumPc[t] = "save"
                     /\ sumPc'[t] = "release"]_vars

\* three messages of u1 exist, one call has summarized the oldest two and
\* the third is left unsummarized
C16_Witness ==
    /\ summary_threshold = 2
    /\ Len(summaries["u1"]) = 1
    /\ Cardinality(summaries["u1"][1].covered) = 2
    /\ Cardinality(Unsummarized("u1")) = 1
    /\ \A x \in summaries["u1"][1].covered : \A y \in Unsummarized("u1") :
          x < y

\* C17: a maybe_summarize call whose summary generation failed changes
\* neither the stored summary nor the high-water mark of its user, the
\* window the next call selects is the one the failed call had selected,
\* and that window stays the same as long as no summary is stored
C17_FailureKeepsWindow ==
    /\ [][\A t \in SumThreads :
            sumPc[t] = "failed" =>
               /\ summaries'[sumUser[t]] = summaries[sumUser[t]]
               /\ _last_summarized_message_id(sumUser[t])'
                     = _last_summarized_message_id(sumUser[t])
               /\ Window(sumUser[t])' = sumBatch[t]]_vars
    /\ [][\A u \in SumUsers :
            /\ summaries'[u] = summaries[u]
            /\ Cardinality(Window(u)) = summary_threshold
            => Window(u)' = Window(u)]_vars

\* a call failed on a window of two messages while an earlier summary of
\* the user is stored
C17_Witness ==
    \E t \in SumThreads :
        /\ sumPc[t] = "failed"
        /\ Cardinality(sumBatch[t]) = summary_threshold
        /\ sumBatch[t] = Window(sumUser[t])
        /\ sumCalls >= 2

(***************************************************************************)
(* Claims on the retry of a rate-limited delivery                          *)
(***************************************************************************)
\* how the loop counts an answer of send_message that ends the work on a
\* recipient: delivered, blocked (counted once the user is unsubscribed) or
\* failed
Classified(outcome) ==
    CASE outcome = "ok" ->
           /\ bcSent' = bcSent + 1
           /\ bcFailed' = bcFailed
           /\ bcPc' = "progress"
      [] outcome = "Forbidden" ->
           /\ bcSent' = bcSent
           /\ bcFailed' = bcFailed
           /\ bcPc' = "unsubscribe"
      [] OTHER ->
           /\ bcSent' = bcSent
           /\ bcFailed' = bcFailed + 1
           /\ bcPc' = "progress"

\* C18: no recipient gets more than two send_message calls; the worker is
\* in the RetryAfter handler only after a first call answered RetryAfter;
\* from the sleep it goes to the one retry unless the task is cancelled;
\* the first call is counted by its answer unless that is RetryAfter, which
\* counts nothing, and the retry is counted by its answer in the same way,
\* a second RetryAfter being a failure
C18_OneRetry ==
    /\ [](/\ bcAttempts <= 2
          /\ bcPc \in {"retry_sleep", "retry"} =>
                bcAttempts = 1 /\ bcOutcome = "RetryAfter")
    /\ [][/\ bcAttempts' # bcAttempts =>
                \/ bcPc = "loop" /\ bcAttempts' = 0
                \/ bcPc = "send" /\ bcAttempts = 0 /\ bcAttempts' = 1
                \/ bcPc = "retry" /\ bcAttempts = 1 /\ bcAttempts' = 2
          /\ (bcPc = "send" /\ bcAttempts' = 1) =>
                IF bcOutcome' = "RetryAfter"
                THEN /\ bcPc' = "retry_sleep"
                     /\ bcSent' = bcSent
                     /\ bcFailed' = bcFailed
                ELSE Classified(bcOutcome')
          /\ (bcPc = "retry_sleep" /\ bcPc' # "retry_sleep") =>
                \/ bcPc' = "retry"
                \/ bcTask' = "cancelled"
                \/ bcPending' = "cancelled"
          /\ (bcPc = "retry" /\ bcAttempts' = 2) =>
                Classified(bcOutcome')
          /\ (bcPc = "retry" /\ bcPc' # "retry") =>
                \/ bcAttempts' = 2
                \/ bcTask' = "cancelled"
                \/ bcPending' = "cancelled"]_vars

\* the retry of a rate-limited delivery was itself answered RetryAfter and
\* has been counted as a failure
C18_Witness ==
    /\ bcAttempts = 2
    /\ bcOutcome = "RetryAfter"
    /\ bcPc = "progress"
    /\ bcFailed > 0

(***************************************************************************)
(* Specification of the handlers' saves and replies                        *)
(***************************************************************************)
InitReply ==
    /\ ReplyIdle
    /\ EmbedIdle
    /\ StoreIdle
    /\ CfgIdle
    /\ LateIdle
    /\ BaseIdle

NextReply ==
    \/ \E h \in Handlers : receive_update(h)
    \/ start_command
    \/ start_command_log
    \/ help_command
    \/ price_list_wait
    \/ save_user_message
    \/ generate_answer
    \/ handoff_decision
    \/ save_answer
    \/ reply_answer
    \/ booking_start_reply
    \/ direct_save
    \/ direct_reply
    \/ handoff_request
    \/ handoff_save
    \/ handoff_reply

SpecReply == InitReply /\ [][NextReply]_vars

\* C19: once a handler has finished, every message it sent that shows an
\* answer of the model either is the fallback string, or comes from a raw
\* answer with a citation line, shows no citation line, and an assistant
\* row of the same update in conversations holds the citation line
C19_Original ==
    rpPc = "idle" =>
        \A r \in rpSent :
            r.kind \in {"llm", "fallback"} =>
                \/ r.text = FALLBACK_RESPONSE
                \/ /\ HasCitation(r.raw)
                   /\ ~HasCitation(r.text)
                   /\ \E i \in 1..Len(conversations) :
                         /\ conversations[i].role = "assistant"
                         /\ conversations[i].ref = r.update
                         /\ HasCitation(conversations[i].text)

\* C20: every message sent to the customer was sent when the user row and
\* the assistant row of its update were already in conversations
C20_Original ==
    \A r \in rpSent : r.user_saved /\ r.assistant_saved

\* the step of admin thread t leaves the rows of live_chats, the transaction
\* image, the delivered messages and the conversation rows as they are
NoEffect ==
    /\ live_chats' = live_chats
    /\ txn' = txn
    /\ dbWriter' = dbWriter
    /\ outbox' = outbox
    /\ conversations' = conversations

\* C23: a start(u) that finds u's session active returns "already_active", and
\* an end(u) that finds no active session returns "already_ended"; from the
\* check to the return of the call no live_chats row is inserted or updated,
\* no Telegram message is sent and no conversation row is saved
C23_RepeatIsNoOp ==
    [][\A t \in AdminThreads :
          /\ (pc[t] = "start_check" /\ pc'[t] # pc[t]
                  /\ is_live_chat_active(op[t].user_id))
                => (pc'[t] = "return" /\ status'[t] = "already_active" /\ NoEffect)
          /\ (pc[t] = "end_check" /\ pc'[t] # pc[t]
                  /\ ~is_live_chat_active(op[t].user_id))
                => (pc'[t] = "return" /\ status'[t] = "already_ended" /\ NoEffect)
          /\ (pc[t] = "return" /\ pc'[t] # pc[t]
                  /\ status[t] \in {"already_active", "already_ended"})
                => (pc'[t] = "idle" /\ NoEffect)
          /\ (status'[t] \in {"already_active", "already_ended"}
                  /\ status'[t] # status[t])
                => pc[t] \in {"start_check", "end_check"}]_vars

\* a second start(u) has returned "already_active" on the session that a
\* finished start(u) opened
C23_Witness ==
    \E t \in AdminThreads :
        /\ pc[t] = "return"
        /\ status[t] = "already_active"
        /\ op[t].kind = "start"
        /\ is_live_chat_active(op[t].user_id)
        /\ \E i \in 1..Len(conversations) :
              /\ conversations[i].user_id = op[t].user_id
              /\ conversations[i].text = "human_joined"

\* C27: while a live-chat session is active for u and vacation mode is on,
\* the handling of a booking-start or agent-request update of u sends no
\* vacation message to u, and when it ends an update with text is stored as
\* a 'user' row (the live-chat guard decides before the vacation guard)
C27_Original ==
    [][(/\ botMsg.kind \in {"book", "agent", "agent_button"}
        /\ is_live_chat_active(botMsg.user_id)
        /\ vacation_mode) =>
          /\ \A o \in outbox' \ outbox : o.kind # "vacation"
          /\ (botMsg' = NoMsg /\ botMsg.hasText =>
                 \E i \in 1..Len(conversations') :
                    /\ conversations'[i].role = "user"
                    /\ conversations'[i].ref = botMsg.id)]_vars

\* C28: the reply of a handler whose live-chat check found no active session
\* leaves only while the session of its recipient is still not active
C28_Original ==
    [][\A o \in outbox' \ outbox :
          (o.kind = "bot" /\ botPc = "reply") => ~is_live_chat_active(o.to)]_vars

\* C24: after any interleaving of generate_referral_code calls, every user
\* has at most one referrals row as referrer (the row whose code every call
\* for that user returns)
C24_Original ==
    \A u \in RefUsers : Cardinality(RowsOf(referrals, u)) <= 1

(***************************************************************************)
(* Specification of the rate limiter                                       *)
(***************************************************************************)
InitRate ==
    /\ RateIdle
    /\ StartIdle
    /\ DimIdle
    /\ ApptIdle
    /\ AnswerIdle
    /\ EngageIdle
    /\ IntentIdle
    /\ BookIdle
    /\ EmbedIdle
    /\ StoreIdle
    /\ CfgIdle
    /\ ReplyIdle
    /\ BaseIdle

NextRate ==
    \/ \E d \in ClockSteps : clock_advance(d)
    \/ live_chat_bypass
    \/ check_rate_limit
    \/ limit_reply
    \/ record_message

SpecRate == InitRate /\ [][NextRate]_vars

\* messages recorded for the user that lie inside window i at the time of
\* the check
Recorded(i) ==
    Cardinality({k \in 1..Len(rlRecorded) :
                    rlRecorded[k] >= rlNow - _WINDOWS[i].window_seconds})

\* C22: a check made with at most N-1 recorded messages inside every window
\* passes; a check made with N or more inside some window is blocked, and
\* the message it returns is that of the first window, in the order minute,
\* hour, day, whose count is at or above its cap
C22_WindowCaps ==
    rlPc = "checked" =>
        /\ (\A i \in 1..Len(_WINDOWS) :
               Recorded(i) <= _WINDOWS[i].max_messages - 1)
              => rlResult = "None"
        /\ \A i \in 1..Len(_WINDOWS) :
               Recorded(i) >= _WINDOWS[i].max_messages => rlResult # "None"
        /\ rlResult # "None" =>
               \E i \in 1..Len(_WINDOWS) :
                  /\ rlResult = _WINDOWS[i].message
                  /\ Recorded(i) >= _WINDOWS[i].max_messages
                  /\ \A j \in 1..(i - 1) :
                        Recorded(j) < _WINDOWS[j].max_messages

\* a check is blocked by the day window with the hour window one message
\* below its cap
C22_Witness ==
    /\ rlPc = "checked"
    /\ rlResult = "day"
    /\ Recorded(2) = RATE_LIMIT_PER_HOUR - 1
    /\ Recorded(3) = RATE_LIMIT_PER_DAY

(***************************************************************************)
(* Specification of intent detection                                       *)
(***************************************************************************)
InitIntent ==
    /\ IntentIdle
    /\ RateIdle
    /\ StartIdle
    /\ DimIdle
    /\ ApptIdle
    /\ AnswerIdle
    /\ EngageIdle
    /\ BookIdle
    /\ EmbedIdle
    /\ StoreIdle
    /\ CfgIdle
    /\ ReplyIdle
    /\ BaseIdle

NextIntent ==
    \/ \E message \in Messages : detect_intent(message)

SpecIntent == InitIntent /\ [][NextIntent]_vars

\* C25: a message that holds a pricing keyword and a booking keyword is
\* classified PRICING (the pricing pattern is tried before the booking
\* pattern)
C25_Original ==
    (/\ inCalls > 0
     /\ Contains(inMessage, <<"how", "much">>)
     /\ Contains(inMessage, <<"book", "appointment">>))
        => inIntent = "PRICING"

\* the entry had a content that is not empty when the rebuild loaded it
LoadedNonEmpty(e) == chunks_by_entry(all_chunks, e) # <<>>

\* C26: when rebuild_index returns normally (after step 6, or early because
\* no entry yields a chunk), every entry whose content was not empty when
\* the rebuild loaded the entries has at least one row in kb_chunks
C26_RebuildComplete ==
    [][/\ (emPc = "save" /\ emPc' = "idle")
            => \A e \in EmbEntries : LoadedNonEmpty(e) => kb_chunks'[e] # <<>>
       /\ (emPc = "idle" /\ emCalls' # emCalls /\ emPc' = "idle")
            => \A e \in EmbEntries : kb_entries[e] = <<>>]_vars

\* a second rebuild has returned: it wrote the rows of the entry edited
\* since the first one and kept the rows of an entry it found unchanged
C26_Witness ==
    /\ emPc = "idle"
    /\ emCalls = 2
    /\ \E e \in EmbEntries :
          /\ e \in changed_entry_ids
          /\ LoadedNonEmpty(e)
          /\ kb_chunks[e] # <<>>
          /\ \A k \in 1..Len(kb_chunks[e]) : kb_chunks[e][k].embedding.call = 2
    /\ \E e \in EmbEntries :
          /\ e \in unchanged_entry_ids
          /\ LoadedNonEmpty(e)
          /\ kb_chunks[e] # <<>>
          /\ \A k \in 1..Len(kb_chunks[e]) : kb_chunks[e][k].embedding.call = 1

\* C29: whenever .stale is absent and no KB mutation (write, then
\* mark_index_stale) and no rebuild is in progress, the saved index was built
\* from the knowledge base as it is now
C29_Original ==
    (staleMtime = 0 /\ \A t \in IndexThreads : ixPc[t] = "idle")
        => diskIndex = kbVersion

\* C30: a broadcast whose worker ran (its task was not cancelled) leaves
\* queued only to sending, a completed broadcast stays completed, and once
\* the caller has seen the worker task end (finished, raised or cancelled;
\* event loop or fallback thread) the status is completed or failed
C30_Original ==
    /\ [][/\ (/\ broadcast.status = "queued"
               /\ broadcast'.status # "queued"
               /\ bcTask # "cancelled") => broadcast'.status = "sending"
          /\ broadcast.status = "completed"
                => broadcast'.status = "completed"]_vars
    /\ [](bcHandled => broadcast.status \in {"completed", "failed"})

(***************************************************************************)
(* Specification of the booking conversation                               *)
(***************************************************************************)
InitBook ==
    /\ BookIdle
    /\ RateIdle
    /\ StartIdle
    /\ DimIdle
    /\ ApptIdle
    /\ AnswerIdle
    /\ EngageIdle
    /\ IntentIdle
    /\ EmbedIdle
    /\ StoreIdle
    /\ CfgIdle
    /\ ReplyIdle
    /\ BaseIdle

NextBook ==
    \/ \E text \in BookTexts, vacation, liveR, limited, liveG,
          handoff \in BOOLEAN :
          booking_start(text, vacation, liveR, limited, liveG, handoff)
    \/ \E text \in BookTexts, liveR, limited, liveG \in BOOLEAN :
          booking_service(text, liveR, limited, liveG)
    \/ \E text \in BookTexts, liveR, limited, liveG \in BOOLEAN :
          booking_date(text, liveR, limited, liveG)
    \/ \E text \in BookTexts, liveR, limited, liveG \in BOOLEAN :
          booking_time(text, liveR, limited, liveG)
    \/ \E text \in BookTexts, liveR, limited, liveG, owner \in BOOLEAN :
          booking_confirm(text, liveR, limited, liveG, owner)
    \/ \E liveR, limited, liveG \in BOOLEAN :
          booking_cancel(liveR, limited, liveG)
    \/ \E text \in BookTexts, liveR, limited, liveG, vacation, liveS,
          handoff \in BOOLEAN :
          booking_button_interrupt(text, liveR, limited, liveG, vacation,
                                   liveS, handoff)
    \/ \E text \in BookTexts : not_routed(text)

SpecBook == InitBook /\ [][NextBook]_vars

\* what a guard, a fallback or a refusal leaves behind
LeaveEffects == {"vacation_message", "limit_message", "live_chat_takeover",
                 "reply_cancelled", "reply_flow_cancelled", "routed",
                 "_handoff_to_human"}

\* C21: an appointment row is created only by an affirmative reply handled
\* in BOOKING_CONFIRM, after the conversation handled one text in each of
\* BOOKING_SERVICE, BOOKING_DATE and BOOKING_TIME in that order, and the row
\* holds these three texts as they were sent; a step that ends the
\* conversation leaves user_data empty, and a step taken by a guard, a
\* fallback, a refusal or the handoff at entry creates no row
C21_BookingFlow ==
    [][/\ appointments' # appointments =>
            /\ bkState = BOOKING_CONFIRM
            /\ bkText' \in FreeTexts
            /\ lower_strip(bkText') \in Affirmative
            /\ Len(bkTrail) = 3
            /\ bkTrail[1].state = BOOKING_SERVICE
            /\ bkTrail[2].state = BOOKING_DATE
            /\ bkTrail[3].state = BOOKING_TIME
            /\ appointments' =
                  Append(appointments,
                         create_appointment(bkTrail[1].text, bkTrail[2].text,
                                            bkTrail[3].text))
       /\ (bkUpdates' # bkUpdates /\ bkState' = END) =>
             user_data' = EmptyData
       /\ bkEffects' \cap LeaveEffects # {} =>
             /\ appointments' = appointments
             /\ bkState' = END]_vars

\* an appointment was created from a service sent with a leading blank and a
\* confirmation sent as " YES ", and the conversation is over
C21_Witness ==
    /\ Len(appointments) = 1
    /\ appointments[1].service = " Haircut"
    /\ appointments[1].preferred_date = "monday"
    /\ bkText = " YES "
    /\ bkState = END
    /\ user_data = EmptyData

(***************************************************************************)
(* Specification of the two referral code senders: the admin panel's flow  *)
(* and the bot's engagement task                                           *)
(***************************************************************************)
InitEngage == InitRef

NextEngage ==
    \/ \E t \in RefThreads, u \in RefUsers : try_send_referral_code(t, u)
    \/ \E t \in RefThreads : generate_select(t)
    \/ \E t \in RefThreads : generate_insert(t)
    \/ \E t \in RefThreads : mark_sent(t)
    \/ \E t \in RefThreads : send_fn(t)
    \/ \E t \in RefThreads : unmark_sent(t)
    \/ \E t \in RefThreads : referral_return(t)
    \/ \E u \in RefUsers, engaged \in BOOLEAN :
          _check_high_engagement_referral(u, engaged)
    \/ _maybe_send_referral_code
    \/ engage_generate_select
    \/ engage_generate_insert
    \/ engage_reply

SpecEngage == InitEngage /\ [][NextEngage]_vars

\* C31: over engagement checks in the bot and appointment confirmations in
\* the admin panel, the referral code message is delivered to each user at
\* most once
C31_Original ==
    \A u \in RefUsers : refDelivered[u] <= 1

\* the handoffs completed so far: one fallback reply each
Handoffs == {r \in rpSent : r.kind = "fallback"}

\* the assistant rows saved for an update
AssistantRows(ref) ==
    {i \in 1..Len(conversations) :
        conversations[i].role = "assistant" /\ conversations[i].ref = ref}

InitAnswer ==
    /\ LateIdle
    /\ EmbedIdle
    /\ StoreIdle
    /\ CfgIdle
    /\ ReplyIdle
    /\ BaseIdle

NextAnswer ==
    \/ \E user_query \in Queries, user_id \in AnswerUsers, chunks \in {0, 2},
          raw \in Completions \cup {<<"error">>}, enabled \in BOOLEAN :
          llm_generate_answer(user_query, user_id, chunks, raw, enabled)

SpecAnswer == InitAnswer /\ [][NextAnswer]_vars

\* C33: when generate_answer has returned the fallback string for an
\* identified user, an unanswered_question row of that user and query is
\* stored and the result carries no follow-up questions
C33_Original ==
    (/\ gaCalls > 0
     /\ gaInput.user_id # NoUser
     /\ gaResult.answer = FALLBACK_RESPONSE) =>
        /\ \E i \in 1..Len(unanswered_questions) :
              /\ unanswered_questions[i].user_id = gaInput.user_id
              /\ unanswered_questions[i].question = gaInput.user_query
        /\ gaResult.follow_up_questions = <<>>

(***************************************************************************)
(* Specification of the appointment status update                          *)
(***************************************************************************)
\* two appointments wait for the admin; the owner of one of them registered
\* through a referral link
InitAppt ==
    /\ apStatus = [i \in {1, 2} |-> "pending"]
    /\ apReferral \in {[u \in {"u1", "u2"} |->
                           IF u = "u1" THEN "pending" ELSE "none"]}
    /\ apPc = [t \in ApptThreads |-> "idle"]
    /\ apArg = [t \in ApptThreads |-> NoRequest]
    /\ apLog = [t \in ApptThreads |-> <<>>]
    /\ apRequests = 0
    /\ RateIdle
    /\ StartIdle
    /\ DimIdle
    /\ IntentIdle
    /\ BookIdle
    /\ EngageIdle
    /\ AnswerIdle
    /\ EmbedIdle
    /\ StoreIdle
    /\ CfgIdle
    /\ ReplyIdle
    /\ BaseIdle

NextAppt ==
    \/ \E t \in ApptThreads, appt_id \in ApptIds, new_status \in FormStatuses :
          update_appointment(t, appt_id, new_status)
    \/ \E t \in ApptThreads : update_validate(t)
    \/ \E t \in ApptThreads : update_appointment_status(t)
    \/ \E t \in ApptThreads : get_appointment(t)
    \/ \E t \in ApptThreads : update_has_pending(t)
    \/ \E t \in ApptThreads : update_complete_referral(t)
    \/ \E t \in ApptThreads : update_try_send(t)
    \/ \E t \in ApptThreads : update_respond(t)

SpecAppt == InitAppt /\ [][NextAppt]_vars

\* C34: a request about to respond that set an existing appointment to
\* confirmed has attempted the referral code send flow as its last step,
\* after any completion of the referral, and the owner's referral is no
\* longer pending; a request with another status or an invalid one has
\* neither completed a referral nor attempted the send flow
C34_ConfirmTriggers ==
    \A t \in ApptThreads :
        apPc[t] = "respond" =>
            IF apArg[t].status = "confirmed" /\ apArg[t].appt_id \in DOMAIN apStatus
            THEN /\ apLog[t] # <<>>
                 /\ apLog[t][Len(apLog[t])] = "try_send_referral_code"
                 /\ Cardinality({i \in 1..Len(apLog[t]) :
                        apLog[t][i] = "try_send_referral_code"}) = 1
                 /\ apReferral[ApptOwner[apArg[t].appt_id]] # "pending"
            ELSE \A i \in 1..Len(apLog[t]) :
                    apLog[t][i] \notin {"complete_referral",
                                        "try_send_referral_code"}

\* a confirmation that completed the owner's referral and then attempted the
\* send flow, while another request set a status other than confirmed
C34_Witness ==
    \E t, s \in ApptThreads :
        /\ apPc[t] = "respond"
        /\ apLog[t] = <<"update_appointment_status", "complete_referral",
                        "try_send_referral_code">>
        /\ apReferral["u1"] = "completed"
        /\ apPc[s] = "respond"
        /\ apArg[s].status = "cancelled"
        /\ apLog[s] = <<"update_appointment_status">>


\* C35: the step that ends a blocked update sends the canned reply and
\* neither calls the handler nor records a timestamp; an update that
\* arrives during a live chat goes to its handler in the same step, with no
\* check, no reply and no timestamp; a timestamp is recorded only in the
\* step that calls the handler of an update whose check passed, and the
\* handler is called only in these two ways
C35_GuardEffects ==
    [][/\ (rlPc = "checked" /\ rlResult # "None" /\ rlPc' = "idle")
            => /\ rlReplies' = Append(rlReplies, rlResult)
               /\ rlHandled' = rlHandled
               /\ rlRecorded' = rlRecorded
               /\ _user_timestamps' = _user_timestamps
       /\ (rlChecks' # rlChecks /\ rlLive')
            => /\ rlPc' = "idle"
               /\ rlHandled' = rlHandled + 1
               /\ rlReplies' = rlReplies
               /\ rlRecorded' = rlRecorded
               /\ _user_timestamps' = _user_timestamps
               /\ rlResult' = rlResult
       /\ (rlRecorded' # rlRecorded \/ Len(_user_timestamps') > Len(_user_timestamps))
            => /\ rlPc = "checked" /\ rlResult = "None" /\ ~rlLive
               /\ _user_timestamps' = Append(_user_timestamps, now)
               /\ rlRecorded' = Append(rlRecorded, now)
               /\ rlHandled' = rlHandled + 1
               /\ rlReplies' = rlReplies
       /\ rlHandled' # rlHandled
            => \/ rlChecks' # rlChecks /\ rlLive'
               \/ rlRecorded' # rlRecorded]_vars

\* an update was blocked, another went through during a live chat while a
\* window was full, and the ones that passed the check were recorded
C35_Witness ==
    /\ rlPc = "idle"
    /\ rlLive
    /\ Len(rlReplies) >= 1
    /\ rlHandled = Len(rlRecorded) + 1
    /\ Len(rlRecorded) >= RATE_LIMIT_PER_MINUTE
    /\ first_limit(_user_timestamps, now, 1) # "None"


InitDim ==
    /\ kb_entries \in [EmbEntries -> {<<"a">>, <<"a", "b">>}]
    /\ EmbedRest
    /\ StoreIdle
    /\ CfgIdle
    /\ ReplyIdle
    /\ LateIdle
    /\ BaseIdle

NextDim ==
    \/ \E e \in EmbEntries, c \in Contents : update_kb_entry(e, c)
    \/ rebuild_load
    \/ rebuild_classify
    \/ rebuild_collect
    \/ \E ok \in BOOLEAN : provider_outcome(ok)
    \/ get_embeddings_batch
    \/ build_index_and_save
    \/ rebuild_save_chunks

SpecDim == InitDim /\ [][NextDim]_vars

\* C37: when the rebuild hands its matrix to the index, every entry with a
\* stored vector of another length than the vectors embedded in this run is
\* among the changed entries, and the vectors collected for the matrix all
\* have one length
C37_Original ==
    emPc \in {"build", "save"} =>
        /\ \A e \in EmbEntries :
              (\E k \in 1..Len(stored_chunks[e]) :
                  stored_chunks[e][k].embedding.dim # embedding_dim)
                 => e \in changed_entry_ids
        /\ \A i, j \in 1..Len(all_embeddings) :
              all_embeddings[i].dim = all_embeddings[j].dim


\* positions of LiveChatService.start between its check and its return
StartBody == {"slc_update", "slc_insert", "slc_commit", "start_send", "start_save"}

\* C38: of two start(u) calls in flight with no end(u) and no stale cleanup
\* between them, at most one is past the check (the other found the session
\* active and returns "already_active"), so that at most one of them opens a
\* session, notifies u and returns "started" or "telegram_failed"
C38_Original ==
    \A t, s \in AdminThreads :
        (/\ t # s
         /\ op[t].kind = "start" /\ op[s].kind = "start"
         /\ op[t].user_id = op[s].user_id
         /\ cleanupPc = "idle")
            => ~(pc[t] \in StartBody /\ pc[s] \in StartBody)


\* ids of the conversation rows of u in the state after the step
RowIdsAfter(u) ==
    {conversations'[i].id : i \in {j \in 1..Len(conversations') :
        conversations'[j].user_id = u}}

\* C39: every step that stores a summary of u stores the window of a run of
\* u whose messages all lie above the high-water mark before the step (none
\* was part of an earlier window, and windows follow one another in id
\* order), moves the mark to the largest id of the window, and leaves no
\* message of u between the two marks outside the window
C39_Original ==
    [][\A u \in SumUsers :
          summaries'[u] # summaries[u] =>
             \E t \in SumThreads :
                /\ sumUser[t] = u
                /\ sumPc[t] = "save" /\ sumPc'[t] = "release"
                /\ sumBatch[t] # {}
                /\ \A x \in sumBatch[t] : x > _last_summarized_message_id(u)
                /\ _last_summarized_message_id(u)' = MaxOf(sumBatch[t])
                /\ \A x \in RowIdsAfter(u) :
                      (x > _last_summarized_message_id(u)
                          /\ x <= _last_summarized_message_id(u)')
                         => x \in sumBatch[t]]_vars

(***************************************************************************)
(* Specification of the process start                                      *)
(***************************************************************************)
\* the sessions a previous run left in live_chats: any subset of the users
\* with one active row each, behind a session of u1 that was ended
StaleSessions ==
    {<<>>,
     <<[user_id |-> "u1", is_active |-> FALSE]>>,
     <<[user_id |-> "u1", is_active |-> TRUE]>>,
     <<[user_id |-> "u2", is_active |-> TRUE]>>,
     <<[user_id |-> "u1", is_active |-> FALSE],
       [user_id |-> "u1", is_active |-> TRUE]>>,
     <<[user_id |-> "u1", is_active |-> TRUE],
       [user_id |-> "u2", is_active |-> TRUE]>>}

InitStart ==
    /\ live_chats \in StaleSessions
    /\ LiveRest
    /\ IndexIdle /\ staleMtime = 0
    /\ SumIdle
    /\ BcastIdle
    /\ RefIdle
    /\ CreditIdle
    /\ deployment = "split"
    /\ RetrIdle
    /\ RestIdle

NextStart ==
    \/ \E mode \in StartModes, token \in BOOLEAN : main(mode, token)
    \/ run_admin_panel
    \/ run_telegram_bot
    \/ create_bot_application
    \/ run_polling
    \/ process_update

SpecStart == InitStart /\ [][NextStart]_vars

\* C40: once the bot of a bot-only or combined start has handled an update
\* no session of the previous run is active, and an admin-only start
\* changes no live_chats row
C40_Original ==
    /\ []((stMode \in {"bot", "both"} /\ stUpdates >= 1)
            => \A u \in Users : ~is_live_chat_active(u))
    /\ [][stMode' = "admin" => live_chats' = live_chats]_vars

====
